---------------------------- MODULE Spec2Model ----------------------------
(***************************************************************************)
(* A model of the design-sheet-to-inventory compiler of                    *)
(* src/generate_upload_inventory_and_create_dynamic_workflow.py            *)
(* (class InventoryGenerator).                                             *)
(*                                                                         *)
(* Text is modelled as a sequence of one-character strings, so that the    *)
(* code's parsing and formatting (split, strip, int, float, f-strings) are *)
(* computed rather than assumed.  A blank spreadsheet cell is the value    *)
(* NaN, as pandas delivers it.                                             *)
(***************************************************************************)
EXTENDS Integers, Sequences, FiniteSets, TLC

VARIABLES
    ip_counters,   \* self.ip_counters : (scope, bridge) -> int  (defaultdict)
    vm_counters,   \* self.vm_counters : scope -> int            (defaultdict)
    vmlaunch_df,   \* the VMLaunchInput table (sequence of rows)
    vlan_df,       \* the VLANGroup table (sequence of rows)
    resources,     \* the ResourceCfg lookup (sequence of templates)
    inventory,     \* inventory["all"]["children"] of build_inventory
    pc,            \* position of the operation in progress
    row,           \* index of the VMLaunchInput row of build_inventory's loop
    slot,          \* the loop variable i of build_inventory's slot loop
    added,         \* the "Added <vm> on <bm> (<host>)" log lines, in order
    arg,           \* arguments of the call in progress
    ret,           \* what the last call returned or raised
    calls          \* the calls made on the instance so far, with their results

vars == <<ip_counters, vm_counters, vmlaunch_df, vlan_df, resources,
          inventory, pc, row, slot, added, arg, ret, calls>>

-----------------------------------------------------------------------------
(* Text *)

NaN == <<"<NaN>">>

S_nan == <<"n", "a", "n">>

Digits == <<"0", "1", "2", "3", "4", "5", "6", "7", "8", "9">>

IsDigit(c) == \E i \in 1..10 : Digits[i] = c

DigitVal(c) == (CHOOSE i \in 1..10 : Digits[i] = c) - 1

\* str(x) of a cell: the text itself, "nan" for a blank cell
Str(x) == IF x = NaN THEN S_nan ELSE x

\* pd.isna(x)
IsNa(x) == x = NaN

RECURSIVE LStrip(_)
LStrip(s) == IF s # <<>> /\ Head(s) = " " THEN LStrip(Tail(s)) ELSE s

RECURSIVE RStrip(_)
RStrip(s) ==
    IF s # <<>> /\ s[Len(s)] = " " THEN RStrip(SubSeq(s, 1, Len(s) - 1)) ELSE s

\* str.strip()
Strip(s) == RStrip(LStrip(s))

\* c in s
Has(s, c) == \E i \in 1..Len(s) : s[i] = c

\* s.count(c)
Count(s, c) == Cardinality({i \in 1..Len(s) : s[i] = c})

FirstIdx(s, c) == CHOOSE i \in 1..Len(s) : s[i] = c /\ \A j \in 1..(i - 1) : s[j] # c

LastIdx(s, c) == CHOOSE i \in 1..Len(s) : s[i] = c /\ \A j \in (i + 1)..Len(s) : s[j] # c

\* s.split(c)
RECURSIVE Split(_, _)
Split(s, c) ==
    IF Has(s, c)
    THEN <<SubSeq(s, 1, FirstIdx(s, c) - 1)>>
             \o Split(SubSeq(s, FirstIdx(s, c) + 1, Len(s)), c)
    ELSE <<s>>

\* s.rsplit(c, 1), for s that holds c
RSplit1(s, c) ==
    <<SubSeq(s, 1, LastIdx(s, c) - 1), SubSeq(s, LastIdx(s, c) + 1, Len(s))>>

\* s.replace(c, "", 1)
ReplaceFirst(s, c) ==
    IF Has(s, c)
    THEN SubSeq(s, 1, FirstIdx(s, c) - 1) \o SubSeq(s, FirstIdx(s, c) + 1, Len(s))
    ELSE s

\* str.isdigit()
IsDigitStr(s) == s # <<>> /\ \A i \in 1..Len(s) : IsDigit(s[i])

RECURSIVE DigitsVal(_)
DigitsVal(s) ==
    IF s = <<>> THEN 0
    ELSE 10 * DigitsVal(SubSeq(s, 1, Len(s) - 1)) + DigitVal(s[Len(s)])

\* str(n) of an int
RECURSIVE IntToStr(_)
IntToStr(n) ==
    IF n < 0 THEN <<"-">> \o IntToStr(-n)
    ELSE IF n < 10 THEN <<Digits[n + 1]>>
    ELSE IntToStr(n \div 10) \o <<Digits[(n % 10) + 1]>>

\* What a Python call gives: a value, or an exception.
Ok(v) == [exc |-> "none", val |-> v]

Raise(e) == [exc |-> e, val |-> 0]

Unsigned(s) == IF s # <<>> /\ Head(s) \in {"+", "-"} THEN Tail(s) ELSE s

Sign(s) == IF s # <<>> /\ Head(s) = "-" THEN -1 ELSE 1

\* int(s) of text: surrounding blanks, an optional sign, decimal digits.
PyInt(s) ==
    LET t == Unsigned(Strip(s))
    IN  IF IsDigitStr(t) THEN Ok(Sign(Strip(s)) * DigitsVal(t))
        ELSE Raise("ValueError")

\* int(float(s)) of text: float() reads surrounding blanks, an optional sign,
\* then digits with at most one point, or inf / infinity / nan; int() of a
\* finite float truncates toward zero, int(nan) is a ValueError and int(inf)
\* an OverflowError.
PyIntFloat(s) ==
    LET t == Unsigned(Strip(s))
        ip == IF Has(t, ".") THEN SubSeq(t, 1, FirstIdx(t, ".") - 1) ELSE t
    IN  IF t \in {<<"i", "n", "f">>, <<"i", "n", "f", "i", "n", "i", "t", "y">>}
        THEN Raise("OverflowError")
        ELSE IF t = S_nan THEN Raise("ValueError")
        ELSE IF IsDigitStr(ReplaceFirst(t, "."))
        THEN Ok(Sign(Strip(s)) * DigitsVal(ip))
        ELSE Raise("ValueError")

-----------------------------------------------------------------------------
(* expand_ip_range *)

\* A faulty variant of RangeIps: range(start, end).
RangeWithoutEnd(prefix, start, end) ==
    [k \in 1..(IF end > start THEN end - start ELSE 0) |->
        prefix \o <<".">> \o IntToStr(start + k - 1)]

\* [f"{prefix}.{i}" for i in range(start, end + 1)]
RangeIps(prefix, start, end) ==
    [k \in 1..(IF end >= start THEN end - start + 1 ELSE 0) |->
        prefix \o <<".">> \o IntToStr(start + k - 1)]

\* The body of the inner try for one stripped, non-empty part: what it adds
\* to ips, or the exception it raises before adding anything.
ExpandPart(part) ==
    IF Has(part, "-")
    THEN IF Count(part, ".") = 3
         THEN LET prefix == RSplit1(part, ".")[1]
                  bounds == Split(RSplit1(part, ".")[2], "-")
              IN  IF Len(bounds) # 2 THEN Raise("ValueError")
                  ELSE IF PyInt(bounds[1]).exc # "none" THEN Raise(PyInt(bounds[1]).exc)
                  ELSE IF PyInt(bounds[2]).exc # "none" THEN Raise(PyInt(bounds[2]).exc)
                  ELSE Ok(RangeIps(prefix, PyInt(bounds[1]).val, PyInt(bounds[2]).val))
         ELSE Ok(<<>>)
    ELSE Ok(<<part>>)

\* The exceptions the inner handler catches (line 118).
PartHandled == {"ValueError", "IndexError"}

\* The loop over the parts: ips so far, or an exception the inner handler
\* does not catch.
RECURSIVE ExpandParts(_, _)
ExpandParts(parts, ips) ==
    IF parts = <<>> THEN Ok(ips)
    ELSE LET part == Strip(Head(parts))
             r == ExpandPart(part)
         IN  IF part = <<>> THEN ExpandParts(Tail(parts), ips)
             ELSE IF r.exc = "none" THEN ExpandParts(Tail(parts), ips \o r.val)
             ELSE IF r.exc \in PartHandled THEN ExpandParts(Tail(parts), ips)
             ELSE Raise(r.exc)

expand_ip_range(ip_range_str) ==
    IF IsNa(ip_range_str) \/ Strip(Str(ip_range_str)) = <<>> THEN Ok(<<>>)
    ELSE LET r == ExpandParts(Split(Str(ip_range_str), ","), <<>>)
         IN  IF r.exc = "none" THEN r ELSE Ok(<<>>)

-----------------------------------------------------------------------------
(* State shared by the specifications *)

NoRet == Raise("pending")

NoArg == [op |-> "none"]

\* A fresh InventoryGenerator (__init__, lines 44-47) with nothing built.
Fresh ==
    /\ ip_counters = <<>>
    /\ vm_counters = <<>>
    /\ inventory = <<>>
    /\ row = 0
    /\ slot = 0
    /\ added = <<>>
    /\ calls = <<>>

NoTables ==
    /\ vmlaunch_df = <<>>
    /\ vlan_df = <<>>
    /\ resources = <<>>

\* The scope names of the inputs.
ScopeA == <<"A">>

ScopeB == <<"B">>

-----------------------------------------------------------------------------
(* Inputs of expand_ip_range *)

MaxTokens == 2

Chars(n) == IntToStr(n)

RECURSIVE Join(_, _)
Join(ss, sep) ==
    IF ss = <<>> THEN <<>>
    ELSE IF Len(ss) = 1 THEN ss[1]
    ELSE ss[1] \o sep \o Join(Tail(ss), sep)

Dotted(octets) == Join([i \in 1..Len(octets) |-> Chars(octets[i])], <<".">>)

\* A token as written (s), what kind of token it is (k), and the addresses
\* it stands for (exp).
Bare(a) == [k |-> "bare", s |-> Dotted(a), exp |-> <<Dotted(a)>>]

Padded(a) ==
    [k |-> "bare", s |-> <<" ">> \o Dotted(a) \o <<" ">>, exp |-> <<Dotted(a)>>]

Range(p, lo, hi) ==
    [k |-> "range",
     s |-> Dotted(p \o <<lo>>) \o <<"-">> \o Chars(hi),
     exp |-> [i \in 1..(hi - lo + 1) |-> Dotted(p \o <<lo + i - 1>>)]]

Malformed(kind, s) == [k |-> kind, s |-> s, exp |-> <<>>]

Net10 == <<10, 0, 0>>

\* A column the sheet does not have.
Absent == <<"<absent>">>

\* A row (pandas Series) from its cells, the absent columns left out.
MkRow(cells) == [c \in {c \in DOMAIN cells : cells[c] # Absent} |-> cells[c]]

\* Gateway addresses of the inputs.
Gw1 == Dotted(<<10, 0, 0, 254>>)

Gw2 == Dotted(<<10, 0, 9, 254>>)

ExpandVocab ==
    { Bare(Net10 \o <<10>>),
      Padded(Net10 \o <<7>>),
      Range(Net10, 1, 3),
      Range(Net10, 9, 10),
      Malformed("blank", <<>>),
      Malformed("blank", <<" ">>),
      \* 10.0.0.x-3 : a range bound that is no number
      Malformed("bound", Dotted(Net10) \o <<".", "x", "-", "3">>),
      \* 10.0.1-3 : a range on two octets
      Malformed("octets", Dotted(<<10, 0, 1>>) \o <<"-", "3">>),
      \* 10.0.0.1-2-3 : two dashes
      Malformed("dashes", Dotted(Net10 \o <<1>>) \o <<"-", "2", "-", "3">>),
      \* 10.0.1 : an address of three octets
      Malformed("octets", Dotted(<<10, 0, 1>>)),
      \* abc : no address at all
      Malformed("syntax", <<"a", "b", "c">>),
      \* 10.0.0.255-256 : a range that leaves the octet
      [k |-> "overrange",
       s |-> Dotted(Net10 \o <<255>>) \o <<"-">> \o Chars(256),
       exp |-> <<Dotted(Net10 \o <<255>>)>>] }

TokenLists == UNION {[1..n -> ExpandVocab] : n \in 0..MaxTokens}

ExpandInputs ==
    {[op |-> "expand_ip_range", toks |-> ts,
      s |-> Join([i \in 1..Len(ts) |-> ts[i].s], <<",">>)] : ts \in TokenLists}
    \cup {[op |-> "expand_ip_range", toks |-> <<>>, s |-> NaN]}

InitExpand ==
    /\ Fresh
    /\ NoTables
    /\ arg \in ExpandInputs
    /\ ret = NoRet
    /\ pc = "call"

CallExpand ==
    /\ pc = "call"
    /\ arg.op = "expand_ip_range"
    /\ ret' = expand_ip_range(arg.s)
    /\ pc' = "done"
    /\ UNCHANGED <<ip_counters, vm_counters, vmlaunch_df, vlan_df, resources,
                   inventory, row, slot, added, arg, calls>>

NextExpand == CallExpand

SpecExpand == InitExpand /\ [][NextExpand]_vars

\* The addresses a token list stands for, token after token.
RECURSIVE Expected(_)
Expected(ts) == IF ts = <<>> THEN <<>> ELSE Head(ts).exp \o Expected(Tail(ts))

KindsOf(ts) == {ts[i].k : i \in 1..Len(ts)}

\* C7: the addresses of the tokens are returned in written order: a bare
\* address as itself, a range prefix.c-end as the addresses with last octet
\* c, c+1, ..., end, duplicates kept.
C7_ExpandInOrder ==
    (pc = "done" /\ KindsOf(arg.toks) \subseteq {"bare", "range"}) =>
        /\ ret.exc = "none"
        /\ ret.val = Expected(arg.toks)

\* "10.0.0.1-3,10.0.0.10" gave 10.0.0.1, 10.0.0.2, 10.0.0.3, 10.0.0.10.
C7_Witness ==
    /\ pc = "done"
    /\ arg.s = <<"1", "0", ".", "0", ".", "0", ".", "1", "-", "3", ",",
                 "1", "0", ".", "0", ".", "0", ".", "1", "0">>
    /\ ret.val = << <<"1", "0", ".", "0", ".", "0", ".", "1">>,
                    <<"1", "0", ".", "0", ".", "0", ".", "2">>,
                    <<"1", "0", ".", "0", ".", "0", ".", "3">>,
                    <<"1", "0", ".", "0", ".", "0", ".", "1", "0">> >>

\* C8: the call always returns a list; a malformed token (a range bound that
\* is no number, a wrong octet count, more than one dash) is skipped and the
\* well-formed tokens around it are returned in order; blank input gives the
\* empty list.
C8_MalformedSkipped ==
    (pc = "done"
        /\ KindsOf(arg.toks) \subseteq {"bare", "range", "blank", "bound", "octets", "dashes"}) =>
        /\ ret.exc = "none"
        /\ ret.val = Expected(arg.toks)

-----------------------------------------------------------------------------
(* allocate_ip *)

\* d[k] of a defaultdict(int)
Get(d, k) == IF k \in DOMAIN d THEN d[k] ELSE 0

\* d[k] = v
Put(d, k, v) == [x \in DOMAIN d \cup {k} |-> IF x = k THEN v ELSE d[x]]

\* A faulty variant of AllocKey: one counter per scope.
KeyByScopeOnly(vlan_set, bridge) == <<vlan_set>>

\* key = (vlan_set, bridge)
AllocKey(vlan_set, bridge) == <<vlan_set, bridge>>

\* A faulty variant of AllocIndex: the index taken after the increment.
IndexAfterIncrement(counter, n) == (counter + 1) % n

\* index = self.ip_counters[key] % len(ip_pool)
AllocIndex(counter, n) == counter % n

\* A faulty variant of AllocCounters: the increment before the pool test.
CountBeforeCheck(ctr, key, ip_pool) == Put(ctr, key, Get(ctr, key) + 1)

\* The counters after the call: untouched when the pool is empty (the raise
\* of line 202 comes first), the key's counter plus one otherwise (line 206).
AllocCounters(ctr, key, ip_pool) ==
    IF ip_pool = <<>> THEN ctr ELSE Put(ctr, key, Get(ctr, key) + 1)

\* allocate_ip on counters ctr: the result, and the counters after the call.
\* The handler of line 212 logs and raises the exception again.
allocate_ip(ctr, vlan_set, bridge, ip_pool) ==
    LET key == AllocKey(vlan_set, bridge)
    IN  IF ip_pool = <<>>
        THEN [exc |-> "ValueError", val |-> 0,
              ctr |-> AllocCounters(ctr, key, ip_pool)]
        ELSE [exc |-> "none",
              val |-> ip_pool[AllocIndex(Get(ctr, key), Len(ip_pool)) + 1],
              ctr |-> AllocCounters(ctr, key, ip_pool)]

-----------------------------------------------------------------------------
(* create_network_interface *)

\* Python's None
None == <<"<None>">>

S_slash24 == <<"/", "2", "4">>

S_via == <<" ", "v", "i", "a", " ">>

S_dev == <<" ", "d", "e", "v", " ">>

S_dpbr == <<"d", "p", "b", "r", "_">>

\* str.lower(), on the letters the inputs use
Lower(s) ==
    [i \in 1..Len(s) |->
        IF s[i] = "N" THEN "n" ELSE IF s[i] = "A" THEN "a" ELSE s[i]]

\* row.get(col, "") of a pandas Series
Cell(vlan, col) == IF col \in DOMAIN vlan THEN vlan[col] ELSE <<>>

RECURSIVE Pow2(_)
Pow2(n) == IF n = 0 THEN 1 ELSE 2 * Pow2(n - 1)

\* One octet of a dotted address: 1 to 3 decimal digits, no leading zero,
\* at most 255.
OctetOk(s) ==
    /\ IsDigitStr(s)
    /\ Len(s) <= 3
    /\ (Len(s) > 1 => s[1] # "0")
    /\ DigitsVal(s) <= 255

\* ipaddress.IPv4Address syntax
AddressOk(s) ==
    LET o == Split(s, ".") IN Len(o) = 4 /\ \A i \in 1..4 : OctetOk(o[i])

AddressInt(s) ==
    LET o == Split(s, ".")
    IN  ((DigitsVal(o[1]) * 256 + DigitsVal(o[2])) * 256 + DigitsVal(o[3])) * 256
            + DigitsVal(o[4])

IntToAddress(v) ==
    Dotted(<<v \div 16777216, (v \div 65536) % 256, (v \div 256) % 256, v % 256>>)

\* str(IPv4Network(s, strict=False).network_address): address[/prefixlen],
\* the host bits masked off; /32 when no prefix length is written.
NetworkAddress(s) ==
    LET p == Split(s, "/")
    IN  IF Len(p) > 2 \/ ~AddressOk(p[1]) THEN Raise("AddressValueError")
        ELSE IF Len(p) = 1 THEN Ok(p[1])
        ELSE IF IsDigitStr(p[2]) /\ DigitsVal(p[2]) <= 32
        THEN Ok(IntToAddress(AddressInt(p[1])
                     - (AddressInt(p[1]) % Pow2(32 - DigitsVal(p[2])))))
        ELSE Raise("NetmaskValueError")

\* ip_col_name (lines 228-229): the first of the two columns that is in the
\* row and whose str() is not blank, or None.
IpColName(vlan) ==
    IF "VM startips" \in DOMAIN vlan /\ Strip(Str(vlan["VM startips"])) # <<>>
    THEN <<"VM startips">>
    ELSE IF "Container startip" \in DOMAIN vlan
            /\ Strip(Str(vlan["Container startip"])) # <<>>
    THEN <<"Container startip">>
    ELSE None

\* bridge = str(int(float(vlan["VlanID"])))
Bridge(vlan) ==
    IF "VlanID" \notin DOMAIN vlan THEN Raise("KeyError")
    ELSE IF PyIntFloat(Str(vlan["VlanID"])).exc # "none"
    THEN Raise(PyIntFloat(Str(vlan["VlanID"])).exc)
    ELSE Ok(IntToStr(PyIntFloat(Str(vlan["VlanID"])).val))

\* vmlaunch_gw (line 250)
LocalGw(vlan) == Strip(Str(Cell(vlan, "VMLaunch GW")))

\* other_vlans_gw (line 256)
OtherGw(vlan) == Strip(Str(Cell(vlan, "Other VLANs GW")))

\* vlan_subnet (line 257)
Subnet(vlan) == Strip(Str(Cell(vlan, "VLAN Subnet")))

\* A faulty variant of Interface: the gateway kept without the 'nan' test.
InterfaceGwUntested(vlan, bridge, ip) ==
    IF LocalGw(vlan) # <<>>
    THEN [k \in {"bridge", "ipaddress", "gw"} |->
             CASE k = "gw" -> LocalGw(vlan)
               [] k = "bridge" -> S_dpbr \o bridge
               [] OTHER -> ip \o S_slash24]
    ELSE [k \in {"bridge", "ipaddress"} |->
             IF k = "bridge" THEN S_dpbr \o bridge ELSE ip \o S_slash24]

\* The interface dict of lines 244-252.
Interface(vlan, bridge, ip) ==
    LET base == [k \in {"bridge", "ipaddress"} |->
                    IF k = "bridge" THEN S_dpbr \o bridge ELSE ip \o S_slash24]
    IN  IF LocalGw(vlan) # <<>> /\ Lower(LocalGw(vlan)) # S_nan
        THEN [k \in {"bridge", "ipaddress", "gw"} |->
                 IF k = "gw" THEN LocalGw(vlan) ELSE base[k]]
        ELSE base

\* The condition of line 259.
RouteWanted(vlan) ==
    /\ OtherGw(vlan) # <<>>
    /\ OtherGw(vlan) # LocalGw(vlan)
    /\ Subnet(vlan) # <<>>

\* The route of lines 255-264: None unless wanted and the subnet parses.
Route(vlan, bridge) ==
    IF RouteWanted(vlan) /\ NetworkAddress(Subnet(vlan)).exc = "none"
    THEN NetworkAddress(Subnet(vlan)).val \o S_slash24 \o S_via \o OtherGw(vlan)
            \o S_dev \o S_dpbr \o bridge
    ELSE None

\* What create_network_interface returns: None, or the dict of line 266.
NoNet == [none |-> TRUE]

NetConfig(interface, route) ==
    [none |-> FALSE, interface |-> interface, route |-> route]

\* A faulty variant of NetAllocated: a subnet that does not parse ends the
\* call in the handler of line 268.
RouteFailureFatal(vlan, bridge, a) ==
    IF a.exc # "none" THEN [net |-> NoNet, ctr |-> a.ctr]
    ELSE IF RouteWanted(vlan) /\ NetworkAddress(Subnet(vlan)).exc # "none"
    THEN [net |-> NoNet, ctr |-> a.ctr]
    ELSE [net |-> NetConfig(Interface(vlan, bridge, a.val), Route(vlan, bridge)),
          ctr |-> a.ctr]

\* create_network_interface on counters ctr: the value returned (net) and the
\* counters after the call.  Every exception ends in the handler of line 268,
\* which returns None.
\* Lines 244-266 after allocate_ip gave a (an address or an exception).
NetAllocated(vlan, bridge, a) ==
    IF a.exc # "none" THEN [net |-> NoNet, ctr |-> a.ctr]
    ELSE [net |-> NetConfig(Interface(vlan, bridge, a.val), Route(vlan, bridge)),
          ctr |-> a.ctr]

\* A faulty variant of NetOnPool: the address is taken before the VLAN id is
\* parsed, under the id as written.
AllocateBeforeBridge(ctr, vlan_set, vlan, ip_pool, bridge) ==
    IF ip_pool = <<>> THEN [net |-> NoNet, ctr |-> ctr]
    ELSE IF bridge.exc # "none"
    THEN [net |-> NoNet,
          ctr |-> allocate_ip(ctr, vlan_set, Str(Cell(vlan, "VlanID")), ip_pool).ctr]
    ELSE NetAllocated(vlan, bridge.val,
                      allocate_ip(ctr, vlan_set, bridge.val, ip_pool))

\* Lines 236-242 with the expanded pool ip_pool and the result of line 241.
NetOnPool(ctr, vlan_set, vlan, ip_pool, bridge) ==
    IF ip_pool = <<>> THEN [net |-> NoNet, ctr |-> ctr]
    ELSE IF bridge.exc # "none" THEN [net |-> NoNet, ctr |-> ctr]
    ELSE NetAllocated(vlan, bridge.val,
                      allocate_ip(ctr, vlan_set, bridge.val, ip_pool))

create_network_interface(ctr, vlan_set, vlan) ==
    IF IpColName(vlan) = None THEN [net |-> NoNet, ctr |-> ctr]
    ELSE NetOnPool(ctr, vlan_set, vlan,
                   expand_ip_range(vlan[IpColName(vlan)[1]]).val, Bridge(vlan))

-----------------------------------------------------------------------------
(* create_vm_config *)

S_vm == <<"_", "v", "m">>

\* A value of the vm_partition / vm_resource maps: an int or text.
IntV(n) == [int |-> n]

StrV(s) == [str |-> s]

NoneV == [none |-> TRUE]

Sizing == {"VCPU", "RAM", "DataDiskSize"}

\* The loop of lines 293-302 over the VLAN rows still to do: the interfaces
\* and routes collected, and the IP counters after it.
RECURSIVE NetLoop(_, _, _, _, _)
\* Lines 296-299 for the first of rows, net_config being r.net, then the rest
\* of the loop.
NetStep(r, vlan_set, rows, interfaces, routes) ==
    IF r.net.none
    THEN NetLoop(r.ctr, vlan_set, Tail(rows), interfaces, routes)
    ELSE NetLoop(r.ctr, vlan_set, Tail(rows),
                 Append(interfaces, r.net.interface),
                 IF r.net.route # None
                 THEN Append(routes, r.net.route) ELSE routes)

NetLoop(ctr, vlan_set, rows, interfaces, routes) ==
    IF rows = <<>>
    THEN [interfaces |-> interfaces, routes |-> routes, ctr |-> ctr]
    ELSE NetStep(create_network_interface(ctr, vlan_set, Head(rows)),
                 vlan_set, rows, interfaces, routes)

\* A faulty variant of TemplateOf: an unknown type takes some template of the
\* table.
TemplateOfSomeType(res_table, vm_type) ==
    IF vm_type \in DOMAIN res_table THEN res_table[vm_type]
    ELSE IF DOMAIN res_table = {} THEN <<>>
    ELSE res_table[CHOOSE t \in DOMAIN res_table : TRUE]

\* resources.get(vm_type, {})
TemplateOf(res_table, vm_type) ==
    IF vm_type \in DOMAIN res_table THEN res_table[vm_type] ELSE <<>>

\* safe_convert (lines 312-320) of a text cell: None, an int, the text
\* itself, or the exception that leaves it.
safe_convert(value) ==
    IF value = <<>> THEN Ok(NoneV)
    ELSE IF IsDigitStr(ReplaceFirst(value, "."))
    THEN IF PyIntFloat(value).exc = "none" THEN Ok(IntV(PyIntFloat(value).val))
         ELSE IF PyIntFloat(value).exc \in {"ValueError", "TypeError"}
         THEN Ok(StrV(value))
         ELSE Raise(PyIntFloat(value).exc)
    ELSE Ok(StrV(value))

\* The keys of the partition comprehension (lines 323-326).
PartitionKeys(res) ==
    {k \in DOMAIN res : k \notin Sizing \cup {"VMType"} /\ safe_convert(res[k]).val # NoneV}

\* The keys the loop of lines 329-336 stores: present, not "", and
\* int(float()) gives a value (ValueError and TypeError are skipped).
ResourceKeys(res) ==
    {k \in Sizing \cap DOMAIN res : res[k] # <<>> /\ PyIntFloat(res[k]).exc = "none"}

\* An exception of lines 309-336 that reaches the handler of line 349.
TemplateRaises(res) ==
    \/ \E k \in DOMAIN res :
          /\ k \notin Sizing \cup {"VMType"}
          /\ safe_convert(res[k]).exc # "none"
    \/ \E k \in Sizing \cap DOMAIN res :
          /\ res[k] # <<>>
          /\ PyIntFloat(res[k]).exc \notin {"none", "ValueError", "TypeError"}

NoVm == [none |-> TRUE]

\* f"{vlan_set}_vm{self.vm_counters[vlan_set]}"
VmName(vlan_set, n) == vlan_set \o S_vm \o IntToStr(n)

\* The dict of lines 340-347.
VmRecord(vm_name, vm_type, net, res) ==
    [none |-> FALSE,
     name |-> vm_name,
     vm_type |-> vm_type,
     networkInterface |-> net.interfaces,
     route |-> IF net.routes = <<>> THEN None ELSE net.routes,
     vm_partition |-> [k \in PartitionKeys(res) |-> safe_convert(res[k]).val],
     vm_resource |-> [k \in ResourceKeys(res) |-> IntV(PyIntFloat(res[k]).val)]]

\* A faulty variant of VmCounters: no roll-back when the VM is discarded.
CounterKeptOnDiscard(vmc, vlan_set, emitted) == Put(vmc, vlan_set, Get(vmc, vlan_set) + 1)

\* self.vm_counters after the call: plus one (line 286), and minus one again
\* when the VM is not emitted (lines 306 and 351).
VmCounters(vmc, vlan_set, emitted) ==
    IF emitted THEN Put(vmc, vlan_set, Get(vmc, vlan_set) + 1)
    ELSE Put(vmc, vlan_set, Get(vmc, vlan_set))

\* create_vm_config on IP counters ipc and VM counters vmc: the value returned
\* (vm: None or the VM dict) and both counters after the call.
VmResult(vmc, vlan_set, vm_type, net, res, emitted) ==
    [vm |-> IF emitted
            THEN VmRecord(VmName(vlan_set, Get(vmc, vlan_set) + 1), vm_type, net, res)
            ELSE NoVm,
     ipc |-> net.ctr,
     vmc |-> VmCounters(vmc, vlan_set, emitted)]

\* Lines 304-338 with the interfaces and routes of the loop (net) and the
\* template res: the VM is emitted when there is an interface and no
\* exception reaches the handler of line 349.
VmOnNet(vmc, vlan_set, vm_type, net, res) ==
    VmResult(vmc, vlan_set, vm_type, net, res,
             net.interfaces # <<>> /\ ~TemplateRaises(res))

create_vm_config(ipc, vmc, vlan_set, vlan_rows, vm_type, res_table) ==
    VmOnNet(vmc, vlan_set, vm_type,
            NetLoop(ipc, vlan_set, vlan_rows, <<>>, <<>>),
            TemplateOf(res_table, vm_type))

(* Calls of create_vm_config on the VLAN rows of one scope *)

MaxVlanRows == 2

MaxVmCalls == 2

TypeSmall == <<"s", "m", "a", "l", "l">>

TypeTiny == <<"t", "i", "n", "y">>

\* Template cells as written: the number a numeric cell denotes, -1 for the
\* cells that denote none.
ValueVocab ==
    { [cell |-> Chars(4), n |-> 4],
      [cell |-> Chars(4) \o <<".", "0">>, n |-> 4],
      [cell |-> Chars(8192), n |-> 8192],
      [cell |-> <<>>, n |-> -1],
      [cell |-> <<"a", "b", "c">>, n |-> -1],
      [cell |-> <<"y", "e", "s">>, n |-> -1],
      [cell |-> <<"i", "n", "f">>, n |-> -1] }

\* The ResourceCfg lookups: one template, for the type small.
ResTables ==
    { [t \in {TypeSmall} |->
          MkRow([c \in {"VCPU", "RAM", "DataDiskSize", "ExtraFlag"} |->
                   CASE c = "VCPU" -> f[1]
                     [] c = "RAM" -> Chars(8192)
                     [] c = "DataDiskSize" -> <<>>
                     [] OTHER -> f[2]])] :
        f \in (({Absent} \cup {v.cell : v \in ValueVocab}) \X {<<"y", "e", "s">>})
              \cup ({Chars(4)} \X ({Absent} \cup {v.cell : v \in ValueVocab})) }

\* VLAN rows of a scope: what is written in the pool, VLAN id and gateway
\* columns.
VlanRow(scope, pool, id, gw, other) ==
    [c \in {"Vlan set", "VM startips", "VlanID", "VMLaunch GW", "Other VLANs GW",
            "VLAN Subnet"} |->
        CASE c = "Vlan set" -> scope
          [] c = "VM startips" -> pool
          [] c = "VlanID" -> id
          [] c = "VMLaunch GW" -> gw
          [] c = "Other VLANs GW" -> other
          [] OTHER -> Dotted(<<10, 0, 1, 0>>) \o S_slash24]

VmRows ==
    { VlanRow(ScopeA, Range(Net10, 1, 2).s, Chars(12), Gw1, Gw1),
      VlanRow(ScopeA, Dotted(<<10, 0, 1, 1>>), Chars(13) \o <<".", "0">>, NaN, Gw2),
      VlanRow(ScopeA, NaN, Chars(14), Gw1, NaN),
      VlanRow(ScopeA, Dotted(Net10 \o <<1>>) \o S_slash24, Chars(15), NaN, NaN),
      VlanRow(ScopeA, Dotted(Net10 \o <<9>>), <<"x">>, Gw1, Gw2) }

VlanRowLists == UNION {[1..n -> VmRows] : n \in 1..MaxVlanRows}

InitVm ==
    /\ Fresh
    /\ vmlaunch_df = <<>>
    /\ vlan_df \in VlanRowLists
    /\ resources \in ResTables
    /\ arg \in {[op |-> "create_vm_config", vlan_set |-> ScopeA, vm_type |-> t] :
                   t \in {TypeSmall, TypeTiny}}
    /\ ret = NoVm
    /\ pc = "idle"

CallVm ==
    /\ pc = "idle"
    /\ Len(calls) < MaxVmCalls
    /\ \E r \in {create_vm_config(ip_counters, vm_counters, arg.vlan_set, vlan_df,
                                  arg.vm_type, resources)} :
           /\ ret' = r.vm
           /\ ip_counters' = r.ipc
           /\ vm_counters' = r.vmc
           /\ calls' = Append(calls, [arg |-> arg, ret |-> r.vm])
    /\ UNCHANGED <<vmlaunch_df, vlan_df, resources, inventory, pc, row, slot,
                   added, arg>>

NextVm == CallVm

SpecVm == InitVm /\ [][NextVm]_vars

\* A VLAN row that contributes an interface.
Contributes(vlan) == ~create_network_interface(<<>>, ScopeA, vlan).net.none

\* C5: a VM record is emitted for a slot exactly when at least one VLAN row
\* contributes an interface, and it holds one interface per contributing row,
\* in row order.
C5_EmittedIffInterface ==
    calls # <<>> =>
        /\ (~ret.none) <=> (SelectSeq(vlan_df, Contributes) # <<>>)
        /\ ~ret.none =>
              /\ Len(ret.networkInterface) = Len(SelectSeq(vlan_df, Contributes))
              /\ \A i \in 1..Len(ret.networkInterface) :
                    ret.networkInterface[i]["bridge"] =
                        S_dpbr \o Bridge(SelectSeq(vlan_df, Contributes)[i]).val

\* The number a template cell denotes, -1 when it denotes none.
NumberOf(cell) == (CHOOSE v \in ValueVocab : v.cell = cell).n

\* C10: for a type of the template table the resource map holds exactly the
\* sizing fields that are present and non-blank, each as an integer; the
\* partition map holds exactly the other non-blank fields, as an integer when
\* numeric and as the original text otherwise; the key sets are disjoint.
C10_ResourceSplit ==
    (calls # <<>> /\ ~ret.none /\ arg.vm_type \in DOMAIN resources) =>
        LET res == resources[arg.vm_type]
        IN  /\ DOMAIN ret.vm_resource = {k \in Sizing \cap DOMAIN res : res[k] # <<>>}
            /\ \A k \in DOMAIN ret.vm_resource :
                  ret.vm_resource[k] = IntV(NumberOf(res[k]))
            /\ DOMAIN ret.vm_partition = {k \in DOMAIN res \ Sizing : res[k] # <<>>}
            /\ \A k \in DOMAIN ret.vm_partition :
                  ret.vm_partition[k] =
                      IF NumberOf(res[k]) >= 0 THEN IntV(NumberOf(res[k]))
                      ELSE StrV(res[k])
            /\ DOMAIN ret.vm_resource \cap DOMAIN ret.vm_partition = {}

\* C23: a template value that is no number is never lost and never fails the
\* VM: when a VLAN row contributes, the VM is emitted, a non-blank sizing
\* field that is no number is in the resource map as the text written, and
\* a non-blank other field that is no number is in the partition map as the
\* text written.
C23_MalformedValueKept ==
    (calls # <<>> /\ arg.vm_type \in DOMAIN resources
        /\ SelectSeq(vlan_df, Contributes) # <<>>) =>
        LET res == resources[arg.vm_type]
        IN  /\ ~ret.none
            /\ \A k \in DOMAIN res :
                  (res[k] # <<>> /\ NumberOf(res[k]) = -1) =>
                      IF k \in Sizing
                      THEN /\ k \in DOMAIN ret.vm_resource
                           /\ ret.vm_resource[k] = StrV(res[k])
                      ELSE /\ k \in DOMAIN ret.vm_partition
                           /\ ret.vm_partition[k] = StrV(res[k])

\* C11: a slot whose VM type is not in the template table still gives a VM
\* record whenever an interface resolves; the record carries the requested
\* type name and empty resource and partition maps.
C11_UnknownTypeEmptyMaps ==
    (calls # <<>> /\ arg.vm_type \notin DOMAIN resources) =>
        /\ (~ret.none) <=> (SelectSeq(vlan_df, Contributes) # <<>>)
        /\ ~ret.none =>
              /\ ret.vm_type = arg.vm_type
              /\ DOMAIN ret.vm_resource = {}
              /\ DOMAIN ret.vm_partition = {}

\* A VM of the unknown type tiny was emitted with an interface.
C11_Witness ==
    /\ calls # <<>>
    /\ arg.vm_type = TypeTiny
    /\ TypeTiny \notin DOMAIN resources
    /\ ~ret.none
    /\ ret.vm_type = TypeTiny
    /\ Len(ret.networkInterface) >= 1

(* Calls of create_network_interface on one VLAN row *)

MaxNetCalls == 2

\* Subnet cells as written, each with the network address it denotes (None
\* when it denotes no network).
SubnetVocab ==
    { [cell |-> Dotted(<<10, 0, 1, 77>>) \o S_slash24, net |-> Dotted(<<10, 0, 1, 0>>)],
      [cell |-> Dotted(<<10, 0, 2, 0>>), net |-> Dotted(<<10, 0, 2, 0>>)],
      [cell |-> <<"b", "a", "d">>, net |-> None] }

\* VLAN id cells as written, each with the number it denotes (-1: none).
VlanIdVocab ==
    { [cell |-> Chars(12), n |-> 12],
      [cell |-> Chars(12) \o <<".", "0">>, n |-> 12],
      [cell |-> <<"x">>, n |-> -1],
      [cell |-> NaN, n |-> -1] }

NetRows ==
    { MkRow([c \in {"VM startips", "Container startip", "VlanID", "VMLaunch GW",
                    "Other VLANs GW", "VLAN Subnet"} |->
               CASE c = "VM startips" -> f[1]
                 [] c = "Container startip" -> f[2]
                 [] c = "VlanID" -> f[3]
                 [] c = "VMLaunch GW" -> f[4]
                 [] c = "Other VLANs GW" -> f[5]
                 [] OTHER -> f[6]]) :
        f \in {Absent, NaN, <<" ">>, Range(Net10, 1, 3).s,
               Dotted(Net10) \o <<".", "x", "-", "3">>}
              \X {Absent, NaN, Range(<<10, 0, 1>>, 1, 2).s}
              \X {v.cell : v \in VlanIdVocab}
              \X {Absent, NaN, Gw1, <<" ">>}
              \X {Absent, NaN, <<" ">>, Gw1, Gw2}
              \X ({Absent, NaN} \cup {v.cell : v \in SubnetVocab}) }

InitNet ==
    /\ Fresh
    /\ NoTables
    /\ arg \in {[op |-> "create_network_interface", vlan_set |-> ScopeA, vlan |-> r] :
                   r \in NetRows}
    /\ ret = NoNet
    /\ pc = "idle"

CallNet ==
    /\ pc = "idle"
    /\ Len(calls) < MaxNetCalls
    /\ \E r \in {create_network_interface(ip_counters, arg.vlan_set, arg.vlan)} :
           /\ ret' = r.net
           /\ ip_counters' = r.ctr
           /\ calls' = Append(calls, [arg |-> arg, ret |-> r.net])
    /\ UNCHANGED <<vm_counters, vmlaunch_df, vlan_df, resources, inventory, pc,
                   row, slot, added, arg>>

NextNet == CallNet

SpecNet == InitNet /\ [][NextNet]_vars

\* A cell that is there and not blank.
Present(vlan, col) ==
    /\ col \in DOMAIN vlan
    /\ vlan[col] # NaN
    /\ Strip(vlan[col]) # <<>>

\* The text of a cell, blank when the cell is not there.
Text(vlan, col) == IF Present(vlan, col) THEN Strip(vlan[col]) ELSE <<>>

\* The network address a subnet cell denotes, None when it denotes none.
NetOf(vlan) ==
    IF \E v \in SubnetVocab : v.cell = Text(vlan, "VLAN Subnet")
    THEN (CHOOSE v \in SubnetVocab : v.cell = Text(vlan, "VLAN Subnet")).net
    ELSE None

VlanNumber(vlan) == (CHOOSE v \in VlanIdVocab : v.cell = vlan["VlanID"]).n

\* The route the row is to have: gateway there, not the local one, subnet
\* there and denoting a network.
RouteDue(vlan) ==
    /\ Present(vlan, "Other VLANs GW")
    /\ Text(vlan, "Other VLANs GW") # Text(vlan, "VMLaunch GW")
    /\ Present(vlan, "VLAN Subnet")
    /\ NetOf(vlan) # None

\* C9: a route is emitted exactly when the other-VLANs gateway is present and
\* non-blank, differs from the local gateway, and the subnet is present and
\* parseable; it is then "<net>/24 via <gw> dev dpbr_<id>".
C9_RouteIff ==
    (calls # <<>> /\ ~ret.none) =>
        /\ (ret.route # None) <=> RouteDue(arg.vlan)
        /\ RouteDue(arg.vlan) =>
              ret.route = NetOf(arg.vlan) \o S_slash24 \o S_via
                              \o Text(arg.vlan, "Other VLANs GW") \o S_dev \o S_dpbr
                              \o Chars(VlanNumber(arg.vlan))

\* The pool column the row is to use: the first of the two that is there and
\* not blank.
PoolColumn(vlan) ==
    IF Present(vlan, "VM startips") THEN "VM startips"
    ELSE IF Present(vlan, "Container startip") THEN "Container startip"
    ELSE "none"

\* The addresses of the pool the row is to use.
PoolDue(vlan) ==
    IF PoolColumn(vlan) = "none" THEN <<>>
    ELSE expand_ip_range(vlan[PoolColumn(vlan)]).val

\* C18: the pool of a VLAN row is that of the first of "VM startips",
\* "Container startip" that is present and non-blank (the second when the
\* first cell is blank); with neither the row contributes no interface.
C18_FirstUsablePool ==
    calls # <<>> =>
        /\ PoolColumn(arg.vlan) = "none" => ret.none
        /\ (PoolDue(arg.vlan) # <<>> /\ VlanNumber(arg.vlan) >= 0) =>
              /\ ~ret.none
              /\ \E i \in 1..Len(PoolDue(arg.vlan)) :
                    ret.interface["ipaddress"] = PoolDue(arg.vlan)[i] \o <<"/", "2", "4">>

\* C19: a call of create_network_interface that returns nothing (no usable
\* pool column, an empty expansion, a VLAN id that is no number) leaves every
\* IP counter as it was.
C19_NoInterfaceNoAllocation ==
    [][(calls' # calls /\ ret'.none) => ip_counters' = ip_counters]_vars

\* A row with a usable pool and a VLAN id that is no number gave nothing.
C19_Witness ==
    /\ calls # <<>>
    /\ ret.none
    /\ PoolDue(arg.vlan) # <<>>
    /\ VlanNumber(arg.vlan) = -1
    /\ ip_counters = <<>>

\* The last n characters of s.
Suffix(s, n) == SubSeq(s, Len(s) - n + 1, Len(s))

\* C20: the interface of a contributing row has bridge dpbr_<n>, n the VLAN
\* id truncated to an integer, ipaddress the allocated address followed by
\* /24 whatever the subnet cell holds, and a gw field exactly when the local
\* gateway is present and non-blank; n is also the bridge of the allocation
\* key and the device of the row's route.
C20_InterfaceForm ==
    (calls # <<>> /\ ~ret.none) =>
        LET dev == <<"d", "p", "b", "r", "_">> \o Chars(VlanNumber(arg.vlan))
        IN  /\ ret.interface["bridge"] = dev
            /\ ret.interface["ipaddress"] =
                  PoolDue(arg.vlan)[((Len(calls) - 1) % Len(PoolDue(arg.vlan))) + 1]
                      \o <<"/", "2", "4">>
            /\ ("gw" \in DOMAIN ret.interface) <=> Present(arg.vlan, "VMLaunch GW")
            /\ "gw" \in DOMAIN ret.interface =>
                  ret.interface["gw"] = Text(arg.vlan, "VMLaunch GW")
            /\ DOMAIN ip_counters = {<<arg.vlan_set, Chars(VlanNumber(arg.vlan))>>}
            /\ ip_counters[<<arg.vlan_set, Chars(VlanNumber(arg.vlan))>>] = Len(calls)
            /\ ret.route # None =>
                  Suffix(ret.route, Len(dev) + 5) = <<" ", "d", "e", "v", " ">> \o dev

\* The id cell "12.0" gave bridge dpbr_12 and a gateway, on a row whose
\* subnet cell denotes no network.
C20_Witness ==
    /\ calls # <<>>
    /\ ~ret.none
    /\ arg.vlan["VlanID"] = <<"1", "2", ".", "0">>
    /\ ret.interface["bridge"] = <<"d", "p", "b", "r", "_", "1", "2">>
    /\ "gw" \in DOMAIN ret.interface
    /\ "VLAN Subnet" \in DOMAIN arg.vlan
    /\ arg.vlan["VLAN Subnet"] = <<"b", "a", "d">>

\* The subnet cell is there and denotes no network.
MalformedSubnet(vlan) == Present(vlan, "VLAN Subnet") /\ NetOf(vlan) = None

\* The row without its subnet column.
WithoutSubnet(vlan) == [c \in DOMAIN vlan \ {"VLAN Subnet"} |-> vlan[c]]

\* C21: a malformed subnet does not fail the call: on a row with one the
\* call gives what it gives on the row without subnet column (the same
\* interface or none, the same counters), an interface comes without route,
\* and the counter of its (scope, bridge) pair, and no other, has gone up by
\* exactly one.
C21_MalformedSubnetNoRoute ==
    [][(calls' # calls /\ MalformedSubnet(arg.vlan)) =>
        LET plain == create_network_interface(ip_counters, arg.vlan_set,
                                              WithoutSubnet(arg.vlan))
            key == <<arg.vlan_set, Chars(VlanNumber(arg.vlan))>>
        IN  /\ ret'.none = plain.net.none
            /\ ip_counters' = plain.ctr
            /\ ~ret'.none =>
                  /\ ret'.interface = plain.net.interface
                  /\ ret'.route = None
                  /\ DOMAIN ip_counters' = DOMAIN ip_counters \cup {key}
                  /\ ip_counters'[key] = Get(ip_counters, key) + 1
                  /\ \A k \in DOMAIN ip_counters \ {key} :
                        ip_counters'[k] = ip_counters[k]]_vars

\* A row that asks for a route (a gateway to other VLANs that is not the
\* local one) over the subnet "bad" gave an interface and no route.
C21_Witness ==
    /\ calls # <<>>
    /\ MalformedSubnet(arg.vlan)
    /\ Present(arg.vlan, "Other VLANs GW")
    /\ Text(arg.vlan, "Other VLANs GW") # Text(arg.vlan, "VMLaunch GW")
    /\ ~ret.none
    /\ ret.route = None
    /\ ip_counters[<<arg.vlan_set, Chars(12)>>] = Len(calls)

(* Calls of allocate_ip on one instance *)

MaxCalls == 5

Pool3 == <<Dotted(Net10 \o <<1>>), Dotted(Net10 \o <<2>>), Dotted(Net10 \o <<3>>)>>

Pool2 == <<Dotted(<<10, 0, 1, 1>>), Dotted(<<10, 0, 1, 2>>)>>

AllocInputs ==
    {[op |-> "allocate_ip", vlan_set |-> k[1], bridge |-> k[2], ip_pool |-> p] :
        k \in {<<ScopeA, Chars(12)>>, <<ScopeA, Chars(13)>>, <<ScopeB, Chars(12)>>},
        p \in {<<>>, Pool3, Pool2}}

InitAlloc ==
    /\ Fresh
    /\ NoTables
    /\ arg = NoArg
    /\ ret = NoRet
    /\ pc = "idle"

CallAllocate ==
    /\ pc = "idle"
    /\ Len(calls) < MaxCalls
    /\ \E a \in AllocInputs :
          \E r \in {allocate_ip(ip_counters, a.vlan_set, a.bridge, a.ip_pool)} :
              /\ arg' = a
              /\ ret' = [exc |-> r.exc, val |-> r.val]
              /\ ip_counters' = r.ctr
              /\ calls' = Append(calls, [arg |-> a, ret |-> [exc |-> r.exc, val |-> r.val]])
    /\ UNCHANGED <<vm_counters, vmlaunch_df, vlan_df, resources, inventory, pc,
                   row, slot, added>>

NextAlloc == CallAllocate

SpecAlloc == InitAlloc /\ [][NextAlloc]_vars

\* The calls before the i-th that were made on its key and returned an address.
EarlierOnKey(i) ==
    {j \in 1..(i - 1) :
        /\ calls[j].arg.vlan_set = calls[i].arg.vlan_set
        /\ calls[j].arg.bridge = calls[i].arg.bridge
        /\ calls[j].ret.exc = "none"}

\* C1: on one (scope, bridge) key the k-th call that is given a non-empty pool
\* (k = 0, 1, ...) returns pool[k mod len(pool)].
C1_RoundRobin ==
    \A i \in 1..Len(calls) :
        calls[i].arg.ip_pool # <<>> =>
            /\ calls[i].ret.exc = "none"
            /\ calls[i].ret.val =
                  calls[i].arg.ip_pool[
                      (Cardinality(EarlierOnKey(i)) % Len(calls[i].arg.ip_pool)) + 1]

\* Five calls on one key with the 3-element pool returned indices 0,1,2,0,1.
C1_Witness ==
    /\ Len(calls) = 5
    /\ \A i \in 1..5 :
          /\ calls[i].arg.vlan_set = ScopeA
          /\ calls[i].arg.bridge = Chars(12)
          /\ calls[i].arg.ip_pool = Pool3
    /\ [i \in 1..5 |-> calls[i].ret.val] =
          <<Pool3[1], Pool3[2], Pool3[3], Pool3[1], Pool3[2]>>

\* C2: a call with an empty pool raises ValueError, returns no address and
\* leaves every counter (its own key's too) as it was.
C2_EmptyPoolRaises ==
    [][(calls' # calls /\ arg'.ip_pool = <<>>) =>
          /\ ret'.exc = "ValueError"
          /\ ip_counters' = ip_counters]_vars

\* An empty-pool call was made on a key whose counter had advanced.
C2_Witness ==
    /\ calls # <<>>
    /\ arg.ip_pool = <<>>
    /\ ret.exc = "ValueError"
    /\ Get(ip_counters, <<arg.vlan_set, arg.bridge>>) > 0

\* C3: a call for key (s, b) leaves the counter of every other key as it was.
C3_OtherKeysUnchanged ==
    [][calls' # calls =>
          \A k \in (DOMAIN ip_counters \cup DOMAIN ip_counters') :
              k # <<arg'.vlan_set, arg'.bridge>> =>
                  /\ k \in DOMAIN ip_counters
                  /\ k \in DOMAIN ip_counters'
                  /\ ip_counters'[k] = ip_counters[k]]_vars

\* Calls on two scopes and two bridges were interleaved.
C3_Witness ==
    /\ Len(calls) >= 4
    /\ Get(ip_counters, <<ScopeA, Chars(12)>>) = 2
    /\ Get(ip_counters, <<ScopeA, Chars(13)>>) = 1
    /\ Get(ip_counters, <<ScopeB, Chars(12)>>) = 1
    /\ calls[1].arg.bridge = Chars(12) /\ calls[1].arg.vlan_set = ScopeA
    /\ calls[Len(calls)].arg.bridge = Chars(12)
    /\ calls[Len(calls)].arg.vlan_set = ScopeA
    /\ calls[Len(calls)].ret.val = Pool3[2]

-----------------------------------------------------------------------------
(* load_sheets *)

\* vlan_df["Vlan set"].ffill(): a blank cell takes the last value above it.
RECURSIVE FFill(_, _)
FFill(rows, last) ==
    IF rows = <<>> THEN <<>>
    ELSE LET v == IF IsNa(Head(rows)["Vlan set"]) THEN last
                  ELSE Head(rows)["Vlan set"]
         IN  <<[Head(rows) EXCEPT !["Vlan set"] = v]>> \o FFill(Tail(rows), v)

\* A faulty variant of LoadVlan: the blank cells above the first scope take
\* that scope.
LoadVlanBackFilled(sheet) ==
    IF \A i \in 1..Len(sheet) : "Vlan set" \in DOMAIN sheet[i]
    THEN FFill(sheet,
               IF \E i \in 1..Len(sheet) : ~IsNa(sheet[i]["Vlan set"])
               THEN sheet[CHOOSE i \in 1..Len(sheet) :
                              /\ ~IsNa(sheet[i]["Vlan set"])
                              /\ \A j \in 1..(i - 1) : IsNa(sheet[j]["Vlan set"])]["Vlan set"]
               ELSE NaN)
    ELSE sheet

\* The VLANGroup table as build_inventory gets it (lines 167-168).
LoadVlan(sheet) ==
    IF \A i \in 1..Len(sheet) : "Vlan set" \in DOMAIN sheet[i]
    THEN FFill(sheet, NaN) ELSE sheet

\* The resource lookup of lines 171-175: the first row of each VMType, rows
\* with a blank VMType dropped, keyed by the VMType cell as written.
ResourceLookup(sheet) ==
    IF \E i \in 1..Len(sheet) : "VMType" \notin DOMAIN sheet[i] THEN <<>>
    ELSE LET first == {i \in 1..Len(sheet) :
                          \A j \in 1..(i - 1) : sheet[j]["VMType"] # sheet[i]["VMType"]}
             kept == {i \in first : Strip(sheet[i]["VMType"]) # <<>>}
         IN  [t \in {sheet[i]["VMType"] : i \in kept} |->
                 LET i == CHOOSE i \in kept : sheet[i]["VMType"] = t
                 IN  [c \in DOMAIN sheet[i] \ {"VMType"} |-> sheet[i][c]]]

\* required_sheets (line 146)
RequiredSheets == {"Global", "VMLaunchInput", "VLANGroup", "ResourceCfg"}

\* A faulty variant of MissingSheets: the Global sheet is not asked for.
MissingWithoutGlobal(sheet_names) == (RequiredSheets \ {"Global"}) \ sheet_names

\* missing_sheets (line 147)
MissingSheets(sheet_names) == RequiredSheets \ sheet_names

\* The exception load_sheets raises on the workbook excel (lines 140-149),
\* "none" when the sheets are read.
LoadError(excel) ==
    IF ~excel.exists THEN "FileNotFoundError"
    ELSE IF MissingSheets(excel.sheet_names) # {} THEN "ValueError"
    ELSE "none"

-----------------------------------------------------------------------------
(* build_inventory *)

\* "Config" in c, on the column names of the VMLaunchInput sheet.
HasConfig(c) == c \in {"VMConfig1", "VMConfig2", "VMConfig3"}

LaunchColumns ==
    <<"BM IP", "Vlan set ID", "VM Count", "VMConfig1", "VMConfig2", "VMConfig3">>

vm_config_cols == SelectSeq(LaunchColumns, HasConfig)

\* str(row.get("Vlan set ID", "")).strip()
VlanSetOf(r) == Strip(Str(Cell(r, "Vlan set ID")))

\* int(float(row.get("VM Count", 0))) of line 382.
CountOf(r) == PyIntFloat(Str(Cell(r, "VM Count")))

\* vm_count (lines 381-384): 0 on ValueError and TypeError.
VmCount(r) == IF CountOf(r).exc = "none" THEN CountOf(r).val ELSE 0

\* A faulty variant of VlanRowsOf: a scope without rows gets every row.
AllRowsWhenNone(df, vlan_set) ==
    IF SelectSeq(df, LAMBDA v : v["Vlan set"] = vlan_set) = <<>> THEN df
    ELSE SelectSeq(df, LAMBDA v : v["Vlan set"] = vlan_set)

\* vlan_df[vlan_df["Vlan set"] == vlan_set]
VlanRowsOf(df, vlan_set) == SelectSeq(df, LAMBDA v : v["Vlan set"] = vlan_set)

\* A DesignRow that yields no slot: an exception that reaches the handler of
\* line 422, an incomplete row (line 386) or a scope without VLAN rows
\* (line 391).
RowSkipped(df, r) ==
    \/ CountOf(r).exc \notin {"none", "ValueError", "TypeError"}
    \/ Cell(r, "BM IP") = <<>>
    \/ VlanSetOf(r) = <<>>
    \/ VmCount(r) = 0
    \/ \E i \in 1..Len(df) : "Vlan set" \notin DOMAIN df[i]
    \/ VlanRowsOf(df, VlanSetOf(r)) = <<>>

\* A faulty variant of SlotType: a slot beyond the selector columns takes the
\* last column.
SlotTypeLastColumn(r, i) ==
    IF i < Len(vm_config_cols) THEN Strip(Str(r[vm_config_cols[i + 1]]))
    ELSE Strip(Str(r[vm_config_cols[Len(vm_config_cols)]]))

\* vm_type of slot i (line 398), i counted from 0.
SlotType(r, i) ==
    IF i < Len(vm_config_cols) THEN Strip(Str(r[vm_config_cols[i + 1]])) ELSE <<>>

\* The test of line 399.
SlotBlank(r, i) == SlotType(r, i) = <<>> \/ SlotType(r, i) = S_nan

\* host_ip (line 405)
HostIp(vm) == Split(vm.networkInterface[1]["ipaddress"], "/")[1]

\* Lines 407-414: the scope and the host entry are made when missing, and the
\* VM is appended to the host's vms.
Insert(inv, vlan_set, host_ip, bm_ip, vm) ==
    LET hosts == IF vlan_set \in DOMAIN inv THEN inv[vlan_set] ELSE <<>>
        host == IF host_ip \in DOMAIN hosts THEN hosts[host_ip]
                ELSE [ansible_host |-> bm_ip, vms |-> <<>>]
    IN  Put(inv, vlan_set,
            Put(hosts, host_ip, [host EXCEPT !.vms = Append(@, vm)]))

\* A generator instance inside build_inventory is a record g: its counters
\* (ipc, vmc), the tables (launch, df, res), the inventory's groups (inv) and
\* the place of the loops (pc, row, slot).

\* Lines 402-416 on slot g.slot, c being what create_vm_config returned.
AfterVm(g, c) ==
    [g EXCEPT !.ipc = c.ipc,
              !.vmc = c.vmc,
              !.inv = IF c.vm.none THEN g.inv
                      ELSE Insert(g.inv, VlanSetOf(g.launch[g.row]), HostIp(c.vm),
                                  g.launch[g.row]["BM IP"], c.vm),
              !.slot = g.slot + 1]

\* One pass of the slot loop (lines 396-420) on row r.
SlotStep(g, r) ==
    IF g.slot >= VmCount(r) THEN [g EXCEPT !.pc = "row", !.row = g.row + 1]
    ELSE IF SlotBlank(r, g.slot) THEN [g EXCEPT !.slot = g.slot + 1]
    ELSE AfterVm(g, create_vm_config(g.ipc, g.vmc, VlanSetOf(r),
                                     VlanRowsOf(g.df, VlanSetOf(r)),
                                     SlotType(r, g.slot), g.res))

\* One pass of the row loop (lines 376-393), or the return of line 427.
RowStep(g) ==
    IF g.row > Len(g.launch) THEN [g EXCEPT !.pc = "done"]
    ELSE IF RowSkipped(g.df, g.launch[g.row]) THEN [g EXCEPT !.row = g.row + 1]
    ELSE [g EXCEPT !.pc = "slot", !.slot = 0]

\* The next step of build_inventory on instance g.
BuildStep(g) ==
    IF g.pc = "row" THEN RowStep(g)
    ELSE IF g.pc = "slot" THEN SlotStep(g, g.launch[g.row])
    ELSE g

RECURSIVE BuildFrom(_)
BuildFrom(g) == IF g.pc = "done" THEN g ELSE BuildFrom(BuildStep(g))

\* build_inventory on an instance whose counters are ipc and vmc, over the
\* tables load_sheets returned: the counters left and the inventory's groups.
build_inventory(ipc, vmc, launch, df, res) ==
    BuildFrom([ipc |-> ipc, vmc |-> vmc, inv |-> <<>>, launch |-> launch,
               df |-> df, res |-> res, pc |-> "row", row |-> 1, slot |-> 0])

(* Runs of build_inventory *)

MaxRows == 2

TypeHuge == <<"h", "u", "g", "e">>

\* The ResourceCfg sheet of the runs, read as text with blanks as "".
ResourceSheet ==
    << [VMType |-> TypeSmall, VCPU |-> Chars(4), RAM |-> Chars(8192),
        DataDiskSize |-> <<>>, ExtraFlag |-> <<"y", "e", "s">>],
       [VMType |-> TypeHuge, VCPU |-> <<"i", "n", "f">>, RAM |-> Chars(8192),
        DataDiskSize |-> <<>>, ExtraFlag |-> <<>>],
       [VMType |-> TypeSmall, VCPU |-> Chars(8192), RAM |-> Chars(4),
        DataDiskSize |-> Chars(4), ExtraFlag |-> <<>>],
       [VMType |-> <<" ">>, VCPU |-> Chars(4), RAM |-> Chars(4),
        DataDiskSize |-> <<>>, ExtraFlag |-> <<>>] >>

\* VLANGroup sheets as read, before the carry-forward of the scope column.
VlanSheets ==
    { \* scope A: a pool of 2 and a pool of 1 under a carried-forward scope;
      \* scope B: a pool written with a prefix length
      << VlanRow(ScopeA, Range(Net10, 1, 2).s, Chars(12), Gw1, Gw1),
         VlanRow(NaN, Dotted(<<10, 0, 1, 1>>), Chars(13) \o <<".", "0">>, NaN, Gw2),
         VlanRow(ScopeB, Dotted(Net10 \o <<1>>) \o S_slash24, Chars(15), NaN, NaN) >>,
      \* a row above the first scope; scope A without a pool; scope B with one
      \* address
      << VlanRow(NaN, Dotted(<<10, 0, 3, 1>>), Chars(12), Gw1, NaN),
         VlanRow(ScopeA, NaN, Chars(14), Gw1, NaN),
         VlanRow(ScopeB, Dotted(Net10 \o <<9>>), Chars(12), Gw1, Gw2) >>,
      \* both scopes on the same single address
      << VlanRow(ScopeA, Dotted(Net10 \o <<9>>), Chars(12), Gw1, NaN),
         VlanRow(ScopeB, Dotted(Net10 \o <<9>>), Chars(12), NaN, NaN) >> }

Bm1 == Dotted(<<192, 168, 0, 1>>)

Bm2 == Dotted(<<192, 168, 0, 2>>)

DesignRow(bm, scope, count, c1, c2, c3) ==
    [c \in {"BM IP", "Vlan set ID", "VM Count", "VMConfig1", "VMConfig2", "VMConfig3"} |->
        CASE c = "BM IP" -> bm
          [] c = "Vlan set ID" -> scope
          [] c = "VM Count" -> count
          [] c = "VMConfig1" -> c1
          [] c = "VMConfig2" -> c2
          [] OTHER -> c3]

\* Rows of the VMLaunchInput sheet.
LaunchRows ==
    { DesignRow(Bm1, ScopeA, Chars(2), TypeSmall, TypeSmall, NaN),
      DesignRow(Bm2, ScopeA, Chars(3), TypeSmall, TypeHuge, TypeSmall),
      DesignRow(Bm1, ScopeB, Chars(3) \o <<".", "0">>, TypeTiny, NaN, TypeSmall),
      DesignRow(NaN, <<" ">> \o ScopeA, Chars(1), TypeSmall, NaN, NaN),
      DesignRow(Bm1, NaN, Chars(2), TypeSmall, TypeSmall, NaN),
      DesignRow(Bm2, ScopeB, NaN, TypeSmall, TypeSmall, NaN),
      DesignRow(Bm1, <<"C">>, Chars(2), TypeSmall, TypeSmall, NaN),
      DesignRow(Bm2, ScopeA, Chars(4), TypeSmall, <<" ">>, TypeSmall) }

LaunchTables == UNION {[1..n -> LaunchRows] : n \in 1..MaxRows}

\* The workbooks of the runs: the file may not be there, and a sheet may be
\* missing from it.
Workbooks ==
    {[op |-> "run", exists |-> FALSE, sheet_names |-> {}]}
        \cup {[op |-> "run", exists |-> TRUE, sheet_names |-> RequiredSheets \ m] :
                 m \in {{}, {"Global"}, {"VMLaunchInput"}, {"VLANGroup"}, {"ResourceCfg"}}}

Init ==
    /\ Fresh
    /\ vmlaunch_df \in LaunchTables
    /\ vlan_df \in VlanSheets
    /\ resources = <<>>
    /\ arg \in Workbooks
    /\ LoadError(arg) # "none" => Len(vmlaunch_df) = 1
    /\ ret = NoRet
    /\ pc = "start"

\* Line 364 and the set-up of lines 366-376.
LoadSheets ==
    /\ pc = "start"
    /\ LoadError(arg) = "none"
    /\ vlan_df' = LoadVlan(vlan_df)
    /\ resources' = ResourceLookup(ResourceSheet)
    /\ inventory' = <<>>
    /\ row' = 1
    /\ pc' = "row"
    /\ UNCHANGED <<ip_counters, vm_counters, vmlaunch_df, slot, added, arg, ret, calls>>

\* load_sheets raises: build_inventory wraps the error (lines 429-431), run
\* passes it on (lines 450-452) and the entry point ends with SystemExit(1)
\* (lines 609-611).
LoadFails ==
    /\ pc = "start"
    /\ LoadError(arg) # "none"
    /\ pc' = "exit"
    /\ ret' = [exc |-> "SystemExit", val |-> 1]
    /\ UNCHANGED <<ip_counters, vm_counters, vmlaunch_df, vlan_df, resources,
                   inventory, row, slot, added, arg, calls>>

\* A DesignRow that is passed over (lines 386-393 and 422-424).
SkipRow ==
    /\ pc = "row"
    /\ row <= Len(vmlaunch_df)
    /\ RowSkipped(vlan_df, vmlaunch_df[row])
    /\ row' = row + 1
    /\ UNCHANGED <<ip_counters, vm_counters, vmlaunch_df, vlan_df, resources,
                   inventory, pc, slot, added, arg, ret, calls>>

\* A DesignRow whose slots are gone through (line 396).
BeginRow ==
    /\ pc = "row"
    /\ row <= Len(vmlaunch_df)
    /\ ~RowSkipped(vlan_df, vmlaunch_df[row])
    /\ pc' = "slot"
    /\ slot' = 0
    /\ UNCHANGED <<ip_counters, vm_counters, vmlaunch_df, vlan_df, resources,
                   inventory, row, added, arg, ret, calls>>

\* A slot without a template selector (lines 398-400).
SkipSlot ==
    /\ pc = "slot"
    /\ slot < VmCount(vmlaunch_df[row])
    /\ SlotBlank(vmlaunch_df[row], slot)
    /\ slot' = slot + 1
    /\ UNCHANGED <<ip_counters, vm_counters, vmlaunch_df, vlan_df, resources,
                   inventory, pc, row, added, arg, ret, calls>>

\* A slot with a selector (lines 402-416): the VM is built and, when there is
\* one, put into the inventory.
CreateVm ==
    /\ pc = "slot"
    /\ slot < VmCount(vmlaunch_df[row])
    /\ ~SlotBlank(vmlaunch_df[row], slot)
    /\ \E c \in {create_vm_config(ip_counters, vm_counters,
                                  VlanSetOf(vmlaunch_df[row]),
                                  VlanRowsOf(vlan_df, VlanSetOf(vmlaunch_df[row])),
                                  SlotType(vmlaunch_df[row], slot), resources)} :
           /\ ip_counters' = c.ipc
           /\ vm_counters' = c.vmc
           /\ inventory' = IF c.vm.none THEN inventory
                           ELSE Insert(inventory, VlanSetOf(vmlaunch_df[row]),
                                       HostIp(c.vm), vmlaunch_df[row]["BM IP"], c.vm)
           /\ added' = IF c.vm.none THEN added
                       ELSE Append(added, [vm |-> c.vm,
                                           vlan_set |-> VlanSetOf(vmlaunch_df[row]),
                                           bm_ip |-> vmlaunch_df[row]["BM IP"],
                                           host_ip |-> HostIp(c.vm),
                                           row |-> row, slot |-> slot])
    /\ slot' = slot + 1
    /\ UNCHANGED <<vmlaunch_df, vlan_df, resources, pc, row, arg, ret, calls>>

\* The slots of the row are done (line 396).
EndRow ==
    /\ pc = "slot"
    /\ slot >= VmCount(vmlaunch_df[row])
    /\ pc' = "row"
    /\ row' = row + 1
    /\ UNCHANGED <<ip_counters, vm_counters, vmlaunch_df, vlan_df, resources,
                   inventory, slot, added, arg, ret, calls>>

\* return inventory (line 427)
Return ==
    /\ pc = "row"
    /\ row > Len(vmlaunch_df)
    /\ pc' = "done"
    /\ ret' = Ok(inventory)
    /\ UNCHANGED <<ip_counters, vm_counters, vmlaunch_df, vlan_df, resources,
                   inventory, row, slot, added, arg, calls>>

Next ==
    \/ LoadSheets
    \/ LoadFails
    \/ SkipRow
    \/ BeginRow
    \/ SkipSlot
    \/ CreateVm
    \/ EndRow
    \/ Return

Spec == Init /\ [][Next]_vars

\* The VM records emitted for scope s, in emission order.
EmittedFor(s) == SelectSeq(added, LAMBDA e : e.vlan_set = s)

\* C4: the VM records emitted for a scope are named {scope}_vm1, {scope}_vm2,
\* ... in emission order without gap or repeat over all DesignRows of the
\* scope, and the VM counter of the scope is the number of records emitted
\* for it.
C4_NamesGapless ==
    \A s \in DOMAIN vm_counters \cup {added[i].vlan_set : i \in 1..Len(added)} :
        /\ Get(vm_counters, s) = Len(EmittedFor(s))
        /\ \A k \in 1..Len(EmittedFor(s)) :
              EmittedFor(s)[k].vm.name = s \o <<"_", "v", "m">> \o Chars(k)

\* The second slot of a row of three was discarded and the third slot gave
\* the VM A_vm2.
C4_Witness ==
    /\ pc = "slot"
    /\ row = 1
    /\ slot = 3
    /\ SlotType(vmlaunch_df[1], 1) = TypeHuge
    /\ Len(added) = 2
    /\ added[2].slot = 2
    /\ added[2].vm.name = ScopeA \o <<"_", "v", "m", "2">>
    /\ vm_counters[ScopeA] = 2

\* The address of the VM's first interface without its /24 suffix.
PrimaryAddress(vm) ==
    LET a == vm.networkInterface[1]["ipaddress"]
    IN  IF Len(a) >= 3 /\ SubSeq(a, Len(a) - 2, Len(a)) = <<"/", "2", "4">>
        THEN SubSeq(a, 1, Len(a) - 3) ELSE a

\* C6: every emitted VM record is listed under inventory[scope].hosts[a].vms
\* with a its first interface's address without the /24 suffix; the vms of a
\* host entry are the records of that scope and primary address in creation
\* order, so none is dropped, overwritten or listed under a second host.
C6_UnderPrimaryAddress ==
    /\ \A i \in 1..Len(added) :
          /\ added[i].vlan_set \in DOMAIN inventory
          /\ PrimaryAddress(added[i].vm) \in DOMAIN inventory[added[i].vlan_set]
    /\ \A s \in DOMAIN inventory : \A a \in DOMAIN inventory[s] :
          inventory[s][a].vms =
              [k \in 1..Len(SelectSeq(EmittedFor(s), LAMBDA e : PrimaryAddress(e.vm) = a)) |->
                  SelectSeq(EmittedFor(s), LAMBDA e : PrimaryAddress(e.vm) = a)[k].vm]

\* A DesignRow without management address, without scope or without a VM
\* count above zero.
Incomplete(r) ==
    \/ r["BM IP"] = NaN
    \/ r["Vlan set ID"] = NaN
    \/ Strip(r["Vlan set ID"]) = <<>>
    \/ r["VM Count"] = NaN
    \/ VmCount(r) = 0

\* C13: a DesignRow whose management address is blank, whose scope is missing
\* or whose VM count is missing or zero is skipped entirely: its slots are
\* never gone through and no VM record comes from it.
C13_IncompleteRowSkipped ==
    /\ pc = "slot" => ~Incomplete(vmlaunch_df[row])
    /\ \A i \in 1..Len(added) : ~Incomplete(vmlaunch_df[added[i].row])

\* The scope of DesignRow r has no row in the VLAN table df.
Unserved(df, r) ==
    \A i \in 1..Len(df) : df[i]["Vlan set"] # Strip(Str(r["Vlan set ID"]))

\* C14: the DesignRows whose scope has no VLAN rows leave no trace: the
\* finished compilation has the inventory and the counters of the compilation
\* of the table without these rows.
C14_UnservedRowSkipped ==
    pc = "done" =>
        LET b == build_inventory(<<>>, <<>>,
                                 SelectSeq(vmlaunch_df, LAMBDA r : ~Unserved(vlan_df, r)),
                                 vlan_df, resources)
        IN  /\ inventory = b.inv
            /\ ret = Ok(b.inv)
            /\ ip_counters = b.ipc
            /\ vm_counters = b.vmc

\* A complete row of scope C, which has no VLAN rows, came first and the row
\* after it gave a VM.
C14_Witness ==
    /\ pc = "done"
    /\ Len(vmlaunch_df) = 2
    /\ ~Incomplete(vmlaunch_df[1])
    /\ Unserved(vlan_df, vmlaunch_df[1])
    /\ added # <<>>
    /\ added[1].row = 2
    /\ inventory # <<>>

\* Slot i of DesignRow r has no type selector: it is beyond the selector
\* columns, or its cell is blank or reads "nan".
SelectorMissing(r, i) ==
    LET cols == <<"VMConfig1", "VMConfig2", "VMConfig3">>
    IN  \/ i >= Len(cols)
        \/ /\ i < Len(cols)
           /\ \/ r[cols[i + 1]] = NaN
              \/ Strip(r[cols[i + 1]]) = <<>>
              \/ Strip(r[cols[i + 1]]) = S_nan

\* C15: a slot without a type selector is skipped alone: the step over it
\* gives no VM record, changes no VM counter and no IP counter, and goes on
\* to the next slot of the same row.
C15_SlotSkippedAlone ==
    [][(pc = "slot" /\ slot < VmCount(vmlaunch_df[row])
            /\ SelectorMissing(vmlaunch_df[row], slot))
        => /\ pc' = "slot"
           /\ row' = row
           /\ slot' = slot + 1
           /\ UNCHANGED <<ip_counters, vm_counters, inventory, added>>]_vars

\* A slot after a slot without selector gave a VM on the same row.
C15_Witness ==
    /\ pc = "slot"
    /\ \E i \in 1..Len(added) : \E k \in 0..2 :
          /\ added[i].row = row
          /\ k < added[i].slot
          /\ SelectorMissing(vmlaunch_df[row], k)

\* The workbook of the run lacks a required table.
TableMissing ==
    \/ ~arg.exists
    \/ \E t \in {"Global", "VMLaunchInput", "VLANGroup", "ResourceCfg"} :
          t \notin arg.sheet_names

\* C16: when a required table is missing the run ends with exit status 1
\* before any DesignRow: no row is reached, no inventory is returned, and no
\* counter is changed.
C16_MissingTableAborts ==
    TableMissing =>
        /\ pc \in {"start", "exit"}
        /\ row = 0
        /\ ip_counters = <<>>
        /\ vm_counters = <<>>
        /\ inventory = <<>>
        /\ added = <<>>
        /\ pc = "exit" => ret = [exc |-> "SystemExit", val |-> 1]
        /\ pc = "start" => ret = NoRet

\* The workbook has no Global sheet and the run has ended.
C16_Witness ==
    /\ arg.exists
    /\ "Global" \notin arg.sheet_names
    /\ pc = "exit"
    /\ ret.exc = "SystemExit"
    /\ ret.val = 1

\* The number of interfaces on bridge dpbr_<b> in the first n VM records
\* emitted, counted over the records of scope s.
RECURSIVE InterfacesOn(_, _, _)
InterfacesOn(s, b, n) ==
    IF n = 0 THEN 0
    ELSE InterfacesOn(s, b, n - 1)
            + (IF added[n].vlan_set = s
               THEN Len(SelectSeq(added[n].vm.networkInterface,
                                  LAMBDA f : f["bridge"] = <<"d", "p", "b", "r", "_">> \o b))
               ELSE 0)

\* C24: in every state of a run the IP counter of each (scope, bridge) pair
\* is the number of interfaces on that bridge in the VM records emitted so
\* far for that scope, so a slot that gave no VM has consumed no address.
C24_CounterCountsInterfaces ==
    /\ \A key \in DOMAIN ip_counters :
          ip_counters[key] = InterfacesOn(key[1], key[2], Len(added))
    /\ \A i \in 1..Len(added) : \A j \in 1..Len(added[i].vm.networkInterface) :
          \E key \in DOMAIN ip_counters :
              /\ key[1] = added[i].vlan_set
              /\ added[i].vm.networkInterface[j]["bridge"] =
                    <<"d", "p", "b", "r", "_">> \o key[2]

\* The scope of row i of the VLAN sheet: the cell of the nearest row at or
\* above i whose scope cell is not blank, blank when there is none.
ScopeAbove(sheet, i) ==
    IF \A j \in 1..i : sheet[j]["Vlan set"] = NaN THEN NaN
    ELSE sheet[CHOOSE j \in 1..i :
                   /\ sheet[j]["Vlan set"] # NaN
                   /\ \A k \in (j + 1)..i : sheet[k]["Vlan set"] = NaN]["Vlan set"]

\* C25: loading gives every VLAN row the scope of the nearest row at or above
\* it whose scope cell is not blank and changes nothing else, a leading row
\* with blank scope stays blank; and a VM is joined to rows of its own scope
\* only: each of its interfaces has an address of the pool of a VLAN row of
\* that scope.
C25_ScopeCarriedForward ==
    /\ [][(pc = "start" /\ pc' = "row") =>
            /\ Len(vlan_df') = Len(vlan_df)
            /\ \A i \in 1..Len(vlan_df) :
                  vlan_df'[i] = [vlan_df[i] EXCEPT !["Vlan set"] = ScopeAbove(vlan_df, i)]]_vars
    /\ [](\A i \in 1..Len(added) :
            /\ added[i].vlan_set # Strip(Str(NaN))
            /\ \A j \in 1..Len(added[i].vm.networkInterface) :
                  \E k \in 1..Len(vlan_df) :
                      /\ vlan_df[k]["Vlan set"] = added[i].vlan_set
                      /\ \E n \in 1..Len(expand_ip_range(vlan_df[k]["VM startips"]).val) :
                            added[i].vm.networkInterface[j]["ipaddress"] =
                                expand_ip_range(vlan_df[k]["VM startips"]).val[n]
                                    \o <<"/", "2", "4">>)

\* The second VLAN row, written with a blank scope under a row of scope A,
\* gave the first VM of scope A its second interface, on bridge dpbr_13.
C25_Witness ==
    /\ added # <<>>
    /\ added[1].vlan_set = ScopeA
    /\ Len(vlan_df) = 3
    /\ vlan_df[2]["Vlan set"] = ScopeA
    /\ vlan_df[2]["VlanID"] = <<"1", "3", ".", "0">>
    /\ Len(added[1].vm.networkInterface) = 2
    /\ added[1].vm.networkInterface[2]["bridge"] = <<"d", "p", "b", "r", "_", "1", "3">>

\* C26: every VM record listed under a host entry was requested by a
\* DesignRow whose management address is that host entry's ansible_host.
C26_HostOfRequestingRow ==
    \A i \in 1..Len(added) :
        /\ added[i].vlan_set \in DOMAIN inventory
        /\ added[i].host_ip \in DOMAIN inventory[added[i].vlan_set]
        /\ inventory[added[i].vlan_set][added[i].host_ip].ansible_host
              = vmlaunch_df[added[i].row]["BM IP"]

\* The addresses, /24 suffix included, the VM records emitted for scope s
\* hold on bridge dpbr_<b>, in emission order.
RECURSIVE HeldOn(_, _, _)
HeldOn(s, b, n) ==
    IF n = 0 THEN <<>>
    ELSE HeldOn(s, b, n - 1)
            \o (IF added[n].vlan_set = s
                THEN [k \in 1..Len(SelectSeq(added[n].vm.networkInterface,
                                              LAMBDA f : f["bridge"] = <<"d", "p", "b", "r", "_">> \o b)) |->
                        SelectSeq(added[n].vm.networkInterface,
                                  LAMBDA f : f["bridge"] = <<"d", "p", "b", "r", "_">> \o b)[k]["ipaddress"]]
                ELSE <<>>)

\* Row k of the loaded VLAN table has a pool without duplicate address and a
\* VLAN id no other row of its scope has.
SoleBridge(k) ==
    /\ Bridge(vlan_df[k]).exc = "none"
    /\ LET pool == expand_ip_range(vlan_df[k]["VM startips"]).val
       IN  /\ pool # <<>>
           /\ \A i, j \in 1..Len(pool) : pool[i] = pool[j] => i = j
    /\ \A j \in 1..Len(vlan_df) :
          (j # k /\ vlan_df[j]["Vlan set"] = vlan_df[k]["Vlan set"]
                /\ Bridge(vlan_df[j]).exc = "none")
              => Bridge(vlan_df[j]).val # Bridge(vlan_df[k]).val

\* C27: on the bridge of such a row no two VM records emitted for the scope
\* hold the same address as long as the scope has no more VM records than
\* the pool has addresses, and when two records hold the same address every
\* address of the pool is held by some record.
C27_NoReuseBeforeWrap ==
    pc \in {"row", "slot", "done"} =>
        \A k \in 1..Len(vlan_df) :
            SoleBridge(k) =>
                LET s == vlan_df[k]["Vlan set"]
                    pool == expand_ip_range(vlan_df[k]["VM startips"]).val
                    held == HeldOn(s, Bridge(vlan_df[k]).val, Len(added))
                    twice == \E i, j \in 1..Len(held) : i # j /\ held[i] = held[j]
                IN  /\ Len(EmittedFor(s)) <= Len(pool) => ~twice
                    /\ twice => \A n \in 1..Len(pool) :
                                    \E i \in 1..Len(held) :
                                        held[i] = pool[n] \o <<"/", "2", "4">>

-----------------------------------------------------------------------------
(* Runs of build_inventory one after another *)

MaxRuns == 2

\* build_inventory is called again on the generator that has compiled: the
\* counters are set in __init__ only (lines 46-47), so the call starts on the
\* counters the last call left. calls keeps what the earlier calls returned.
RunAgain ==
    /\ pc = "done"
    /\ Len(calls) + 1 < MaxRuns
    /\ calls' = Append(calls, [instance |-> "same", inventory |-> ret.val])
    /\ pc' = "start"
    /\ row' = 0
    /\ slot' = 0
    /\ inventory' = <<>>
    /\ added' = <<>>
    /\ ret' = NoRet
    /\ UNCHANGED <<ip_counters, vm_counters, vmlaunch_df, vlan_df, resources, arg>>

\* A new generator is made on the same workbook (lines 37-47) and compiles.
RunFresh ==
    /\ pc = "done"
    /\ Len(calls) + 1 < MaxRuns
    /\ calls' = Append(calls, [instance |-> "fresh", inventory |-> ret.val])
    /\ pc' = "start"
    /\ ip_counters' = <<>>
    /\ vm_counters' = <<>>
    /\ row' = 0
    /\ slot' = 0
    /\ inventory' = <<>>
    /\ added' = <<>>
    /\ ret' = NoRet
    /\ UNCHANGED <<vmlaunch_df, vlan_df, resources, arg>>

NextRerun ==
    \/ Next
    \/ RunAgain
    \/ RunFresh

SpecRerun == Init /\ [][NextRerun]_vars

\* C12: every call of build_inventory over the same tables returns the
\* inventory the first call returned, on a fresh generator and on the
\* generator that has compiled before.
C12_RerunSameInventory ==
    (pc = "done" /\ calls # <<>>) => ret.val = calls[1].inventory

-----------------------------------------------------------------------------
(* Two generators compiling side by side *)

Instances == {1, 2}

\* A faulty variant of CountersOf: every generator works on the counters of
\* the first one.
CountersOfFirst(i) == 1

\* The counters generator i works on: its own attributes self.ip_counters and
\* self.vm_counters (lines 46-47).
CountersOf(i) == i

\* The VMLaunchInput sheets of the two generators: one row of host Bm1.
TwoTables == {<<r>> : r \in {x \in LaunchRows : x["BM IP"] = Bm1}}

InitTwo ==
    /\ ip_counters = [i \in Instances |-> <<>>]
    /\ vm_counters = [i \in Instances |-> <<>>]
    /\ inventory = [i \in Instances |-> <<>>]
    /\ row = [i \in Instances |-> 0]
    /\ slot = [i \in Instances |-> 0]
    /\ added = <<>>
    /\ vmlaunch_df \in [Instances -> TwoTables]
    /\ vlan_df \in [Instances -> VlanSheets]
    /\ resources = [i \in Instances |-> <<>>]
    /\ arg = [i \in Instances |->
                [op |-> "run", exists |-> TRUE, sheet_names |-> RequiredSheets]]
    /\ ret = [i \in Instances |-> NoRet]
    /\ pc = [i \in Instances |-> "start"]
    /\ calls = <<>>

\* Generator i as build_inventory sees it.
InstanceOf(i) ==
    [ipc |-> ip_counters[CountersOf(i)], vmc |-> vm_counters[CountersOf(i)],
     inv |-> inventory[i], launch |-> vmlaunch_df[i], df |-> vlan_df[i],
     res |-> resources[i], pc |-> pc[i], row |-> row[i], slot |-> slot[i]]

\* Generator i loads its sheets (line 364 and the set-up of lines 366-376).
TwoLoad(i) ==
    /\ pc[i] = "start"
    /\ LoadError(arg[i]) = "none"
    /\ vlan_df' = [vlan_df EXCEPT ![i] = LoadVlan(vlan_df[i])]
    /\ resources' = [resources EXCEPT ![i] = ResourceLookup(ResourceSheet)]
    /\ inventory' = [inventory EXCEPT ![i] = <<>>]
    /\ row' = [row EXCEPT ![i] = 1]
    /\ pc' = [pc EXCEPT ![i] = "row"]
    /\ UNCHANGED <<ip_counters, vm_counters, vmlaunch_df, slot, added, arg, ret,
                   calls>>

\* Generator i takes its next step of the row loop or of the slot loop
\* (lines 376-427).
TwoStep(i) ==
    /\ pc[i] \in {"row", "slot"}
    /\ \E g \in {BuildStep(InstanceOf(i))} :
           /\ ip_counters' = [ip_counters EXCEPT ![CountersOf(i)] = g.ipc]
           /\ vm_counters' = [vm_counters EXCEPT ![CountersOf(i)] = g.vmc]
           /\ inventory' = [inventory EXCEPT ![i] = g.inv]
           /\ pc' = [pc EXCEPT ![i] = g.pc]
           /\ row' = [row EXCEPT ![i] = g.row]
           /\ slot' = [slot EXCEPT ![i] = g.slot]
           /\ ret' = [ret EXCEPT ![i] = IF g.pc = "done" THEN Ok(g.inv) ELSE @]
    /\ UNCHANGED <<vmlaunch_df, vlan_df, resources, added, arg, calls>>

NextTwo == \E i \in Instances : TwoLoad(i) \/ TwoStep(i)

SpecTwo == InitTwo /\ [][NextTwo]_vars

\* C17: whatever the interleaving of the two generators' steps, a generator
\* that has finished returns the inventory, and holds the counters, that
\* build_inventory gives on its tables alone from counters at zero.
C17_InstancesIsolated ==
    \A i \in Instances :
        pc[i] = "done" =>
            LET b == build_inventory(<<>>, <<>>, vmlaunch_df[i], vlan_df[i],
                                     resources[i])
            IN  /\ ret[i] = Ok(b.inv)
                /\ ip_counters[i] = b.ipc
                /\ vm_counters[i] = b.vmc

\* Both generators are inside the slot loop of a row of scope A and each has
\* given its first VM of that scope.
C17_Witness ==
    /\ \A i \in Instances :
          /\ pc[i] = "slot"
          /\ slot[i] = 1
          /\ ScopeA \in DOMAIN inventory[i]
          /\ ScopeA \in DOMAIN vm_counters[i]
          /\ vm_counters[i][ScopeA] = 1

-----------------------------------------------------------------------------
(* The addresses expand_ip_range returns *)

\* C22: every address in the list expand_ip_range returns is a syntactically
\* valid address: four octets of 0 to 255.
C22_OnlyValidAddresses ==
    pc = "done" => \A i \in 1..Len(ret.val) : AddressOk(ret.val[i])

-----------------------------------------------------------------------------
(* The legacy generator: src/inventory.py *)

\* The longest run of digits s starts with (the group (\d+) of line 94).
RECURSIVE DigitPrefix(_)
DigitPrefix(s) ==
    IF s # <<>> /\ IsDigit(Head(s)) THEN <<Head(s)>> \o DigitPrefix(Tail(s)) ELSE <<>>

\* [f"{prefix}{i}" for i in range(int(start), int(end) + 1)], prefix written
\* without its closing point.
LegacyRangeIps(prefix, start, end) ==
    [k \in 1..(IF end >= start THEN end - start + 1 ELSE 0) |->
        prefix \o <<".">> \o IntToStr(start + k - 1)]

\* Lines 93-99 for one stripped part: a part with a dash gives its range when
\* it starts with three dotted numbers, a number, the dash and a number, and
\* nothing otherwise; another part is taken as written.
LegacyExpandPart(part) ==
    IF Has(part, "-")
    THEN LET g == Split(SubSeq(part, 1, FirstIdx(part, "-") - 1), ".")
             e == DigitPrefix(SubSeq(part, FirstIdx(part, "-") + 1, Len(part)))
         IN  IF Len(g) = 4 /\ (\A i \in 1..4 : IsDigitStr(g[i])) /\ e # <<>>
             THEN LegacyRangeIps(Join(SubSeq(g, 1, 3), <<".">>), DigitsVal(g[4]),
                                 DigitsVal(e))
             ELSE <<>>
    ELSE IF part # <<>> THEN <<part>> ELSE <<>>

RECURSIVE LegacyExpandParts(_)
LegacyExpandParts(parts) ==
    IF parts = <<>> THEN <<>>
    ELSE LegacyExpandPart(Strip(Head(parts))) \o LegacyExpandParts(Tail(parts))

\* expand_ip_range of src/inventory.py (lines 87-108): the addresses of the
\* parts, those that ipaddress.ip_address refuses left out.
LegacyExpandIpRange(ip_range_str) ==
    SelectSeq(LegacyExpandParts(Split(Str(ip_range_str), ",")), AddressOk)

\* start_ips_raw (lines 153-157): the cell of the first of the two columns
\* the row has, None (blank here) when it has neither.
LegacyStartIpsRaw(vlan) ==
    IF "vm startips" \in DOMAIN vlan THEN vlan["vm startips"]
    ELSE IF "container startip" \in DOMAIN vlan THEN vlan["container startip"]
    ELSE NaN

\* start_ips (lines 159-164), empty when the row is passed over.
LegacyStartIps(vlan) ==
    IF IsNa(LegacyStartIpsRaw(vlan)) \/ Strip(Str(LegacyStartIpsRaw(vlan))) = <<>>
    THEN <<>>
    ELSE LegacyExpandIpRange(LegacyStartIpsRaw(vlan))

\* pd.notna(v) and str(v).strip() != '' of lines 175 and 179, v a cell or
\* None.
LegacyGiven(vlan, col) ==
    col \in DOMAIN vlan /\ ~IsNa(vlan[col]) /\ Strip(Str(vlan[col])) # <<>>

\* iface (lines 174-176) for the address ip.
LegacyIface(vlan, ip) ==
    IF LegacyGiven(vlan, "Management GW")
    THEN [k \in {"bridge", "ipaddress", "gw"} |->
             CASE k = "bridge" -> S_dpbr \o Str(vlan["Vlan"])
               [] k = "ipaddress" -> ip \o S_slash24
               [] OTHER -> vlan["Management GW"]]
    ELSE [k \in {"bridge", "ipaddress"} |->
             IF k = "bridge" THEN S_dpbr \o Str(vlan["Vlan"]) ELSE ip \o S_slash24]

\* The route of lines 179-181 for the address ip.
LegacyRoute(vlan, ip) ==
    NetworkAddress(ip \o S_slash24).val \o S_slash24 \o S_via
        \o Str(vlan["Other VLANs GW"]) \o S_dev \o S_dpbr \o Str(vlan["Vlan"])

\* The loop of lines 151-181 for slot i over the VLAN rows left:
\* network_interfaces and routes.
RECURSIVE LegacyNetLoop(_, _, _, _)
LegacyNetLoop(rows, i, interfaces, routes) ==
    IF rows = <<>> THEN [interfaces |-> interfaces, routes |-> routes]
    ELSE IF LegacyStartIps(Head(rows)) = <<>>
    THEN LegacyNetLoop(Tail(rows), i, interfaces, routes)
    ELSE LegacyNetLoop(
             Tail(rows), i,
             Append(interfaces,
                    LegacyIface(Head(rows),
                                LegacyStartIps(Head(rows))[(i % Len(LegacyStartIps(Head(rows)))) + 1])),
             IF LegacyGiven(Head(rows), "Other VLANs GW")
             THEN Append(routes,
                         LegacyRoute(Head(rows),
                                     LegacyStartIps(Head(rows))[(i % Len(LegacyStartIps(Head(rows)))) + 1]))
             ELSE routes)

\* vm_count (line 132); the cell is a number or blank.
LegacyVmCount(r) ==
    IF IsNa(r["VM Count"]) THEN 0 ELSE PyIntFloat(Str(r["VM Count"])).val

\* vlan_set (line 131)
LegacyVlanSet(r) == Strip(Str(r["Vlan set ID"]))

\* vm_type (line 147) of slot i, counted from 0.
LegacyVmType(r, i) ==
    IF i < Len(vm_config_cols) THEN Strip(Str(r[vm_config_cols[i + 1]]))
    ELSE <<"V", "M", "C", "o", "n", "f", "i", "g">> \o IntToStr(i + 1)

\* The tests of lines 134 and 138 that pass a DesignRow over.
LegacyRowSkipped(df, r) ==
    \/ r["BM IP"] = <<>>
    \/ LegacyVlanSet(r) = <<>>
    \/ LegacyVmCount(r) = 0
    \/ VlanRowsOf(df, LegacyVlanSet(r)) = <<>>

\* int(val) of line 202 fails on a sizing field of the template res.
LegacyResourceRaises(res) ==
    \E k \in Sizing \cap DOMAIN res : res[k] # <<>> /\ PyInt(res[k]).exc # "none"

\* The VM dict of lines 187-214.
LegacyVm(vlan_set, i, vm_type, net, res) ==
    [name |-> vlan_set \o S_vm \o IntToStr(i + 1),
     vm_type |-> vm_type,
     networkInterface |-> net.interfaces,
     route |-> IF net.routes = <<>> THEN None ELSE net.routes,
     vm_partition |-> [k \in {k \in DOMAIN res \ Sizing : res[k] # <<>>} |->
                          IF PyInt(res[k]).exc = "none" THEN IntV(PyInt(res[k]).val)
                          ELSE StrV(res[k])],
     vm_resource |-> [k \in {k \in Sizing \cap DOMAIN res : res[k] # <<>>} |->
                         IntV(PyInt(res[k]).val)]]

\* ip (line 204)
LegacyHostIp(net) == Split(net.interfaces[1]["ipaddress"], "/")[1]

(* Runs of the legacy build_inventory *)

WideType == <<"w", "i", "d", "e">>

\* resource_dict (lines 75-80): small, and wide whose VCPU is written 4.0.
LegacyResources ==
    [t \in {TypeSmall, WideType} |->
        [c \in {"VCPU", "RAM", "DataDiskSize", "ExtraFlag"} |->
            CASE c = "VCPU" -> IF t = TypeSmall THEN Chars(4) ELSE Chars(4) \o <<".", "0">>
              [] c = "RAM" -> Chars(8192)
              [] c = "DataDiskSize" -> <<>>
              [] OTHER -> <<"y", "e", "s">>]]

LegacyVlanRow(scope, pool, id, gw, other) ==
    [c \in {"Vlan set", "vm startips", "Vlan", "Management GW", "Other VLANs GW"} |->
        CASE c = "Vlan set" -> scope
          [] c = "vm startips" -> pool
          [] c = "Vlan" -> id
          [] c = "Management GW" -> gw
          [] OTHER -> other]

\* VLANGroup tables after the carry-forward of line 72.
LegacyVlanTables ==
    { << LegacyVlanRow(ScopeA, Range(Net10, 1, 2).s, Chars(12), Gw1, NaN),
         LegacyVlanRow(ScopeA, NaN, Chars(13), NaN, NaN),
         LegacyVlanRow(ScopeB, Dotted(Net10 \o <<9>>), Chars(12), NaN, Gw2) >>,
      << LegacyVlanRow(ScopeA, Dotted(Net10 \o <<9>>), Chars(12), Gw1, Gw2),
         LegacyVlanRow(ScopeB, NaN, Chars(14), Gw1, NaN) >> }

LegacyLaunchRows ==
    { DesignRow(Bm1, ScopeA, Chars(2), TypeSmall, TypeSmall, NaN),
      DesignRow(Bm2, ScopeA, Chars(3), TypeSmall, TypeSmall, TypeSmall),
      DesignRow(Bm1, ScopeB, Chars(1), TypeSmall, NaN, NaN),
      DesignRow(Bm2, ScopeA, NaN, TypeSmall, NaN, NaN),
      DesignRow(Bm1, <<"C">>, Chars(1), TypeSmall, NaN, NaN),
      DesignRow(Bm2, ScopeB, Chars(1), WideType, NaN, NaN) }

LegacyLaunchTables == UNION {[1..n -> LegacyLaunchRows] : n \in 1..MaxRows}

\* The generator after read_excel_sheets (lines 37-82), at the head of the row
\* loop of line 129; arg holds the local hosts_dict.
InitLegacy ==
    /\ ip_counters = <<>>
    /\ vm_counters = <<>>
    /\ inventory = <<>>
    /\ row = 1
    /\ slot = 0
    /\ added = <<>>
    /\ calls = <<>>
    /\ vmlaunch_df \in LegacyLaunchTables
    /\ vlan_df \in LegacyVlanTables
    /\ resources = LegacyResources
    /\ arg = [op |-> "build_inventory", hosts_dict |-> <<>>]
    /\ ret = NoRet
    /\ pc = "row"

\* A DesignRow that is passed over (lines 134-140).
LegacySkipRow ==
    /\ pc = "row"
    /\ row <= Len(vmlaunch_df)
    /\ LegacyRowSkipped(vlan_df, vmlaunch_df[row])
    /\ row' = row + 1
    /\ UNCHANGED <<ip_counters, vm_counters, vmlaunch_df, vlan_df, resources,
                   inventory, pc, slot, added, arg, ret, calls>>

\* The slot loop of a DesignRow starts on an empty hosts_dict (lines 142-145).
LegacyBeginRow ==
    /\ pc = "row"
    /\ row <= Len(vmlaunch_df)
    /\ ~LegacyRowSkipped(vlan_df, vmlaunch_df[row])
    /\ pc' = "slot"
    /\ slot' = 0
    /\ arg' = [arg EXCEPT !.hosts_dict = <<>>]
    /\ UNCHANGED <<ip_counters, vm_counters, vmlaunch_df, vlan_df, resources,
                   inventory, row, added, ret, calls>>

\* One slot (lines 146-215) whose interfaces and routes are net: passed over
\* without interface, ended by the int() of line 202, or stored in
\* hosts_dict under its first address, in place of what was there.
LegacySlotOnNet(r, net) ==
    IF net.interfaces = <<>>
    THEN /\ slot' = slot + 1
         /\ UNCHANGED <<pc, arg, added, ret>>
    ELSE IF LegacyResourceRaises(TemplateOf(resources, LegacyVmType(r, slot)))
    THEN /\ pc' = "raised"
         /\ ret' = Raise("ValueError")
         /\ UNCHANGED <<slot, arg, added>>
    ELSE /\ slot' = slot + 1
         /\ arg' = [arg EXCEPT !.hosts_dict =
                       Put(@, LegacyHostIp(net),
                           [ansible_host |-> r["BM IP"],
                            vms |-> <<LegacyVm(LegacyVlanSet(r), slot,
                                               LegacyVmType(r, slot), net,
                                               TemplateOf(resources, LegacyVmType(r, slot)))>>])]
         /\ added' = Append(added,
                            [vm |-> LegacyVm(LegacyVlanSet(r), slot, LegacyVmType(r, slot),
                                             net,
                                             TemplateOf(resources, LegacyVmType(r, slot))),
                             vlan_set |-> LegacyVlanSet(r),
                             host_ip |-> LegacyHostIp(net),
                             row |-> row, slot |-> slot])
         /\ UNCHANGED <<pc, ret>>

LegacySlot ==
    /\ pc = "slot"
    /\ slot < LegacyVmCount(vmlaunch_df[row])
    /\ LegacySlotOnNet(vmlaunch_df[row],
                       LegacyNetLoop(VlanRowsOf(vlan_df, LegacyVlanSet(vmlaunch_df[row])),
                                     slot, <<>>, <<>>))
    /\ UNCHANGED <<ip_counters, vm_counters, vmlaunch_df, vlan_df, resources,
                   inventory, row, calls>>

\* The slots of the row are done: a hosts_dict that is not empty becomes the
\* group of the scope (lines 217-218).
LegacyEndRow ==
    /\ pc = "slot"
    /\ slot >= LegacyVmCount(vmlaunch_df[row])
    /\ inventory' = IF DOMAIN arg.hosts_dict # {}
                    THEN Put(inventory, LegacyVlanSet(vmlaunch_df[row]), arg.hosts_dict)
                    ELSE inventory
    /\ pc' = "row"
    /\ row' = row + 1
    /\ UNCHANGED <<ip_counters, vm_counters, vmlaunch_df, vlan_df, resources,
                   slot, added, arg, ret, calls>>

\* return inventory (line 221)
LegacyReturn ==
    /\ pc = "row"
    /\ row > Len(vmlaunch_df)
    /\ pc' = "done"
    /\ ret' = Ok(inventory)
    /\ UNCHANGED <<ip_counters, vm_counters, vmlaunch_df, vlan_df, resources,
                   inventory, row, slot, added, arg, calls>>

NextLegacy ==
    \/ LegacySkipRow
    \/ LegacyBeginRow
    \/ LegacySlot
    \/ LegacyEndRow
    \/ LegacyReturn

SpecLegacy == InitLegacy /\ [][NextLegacy]_vars

\* C28: every VM the legacy build_inventory made from a slot that resolved an
\* interface is in the inventory it returns, under its scope.
C28_LegacyKeepsEveryVm ==
    pc = "done" =>
        \A i \in 1..Len(added) :
            /\ added[i].vlan_set \in DOMAIN ret.val
            /\ \E h \in DOMAIN ret.val[added[i].vlan_set] :
                  \E k \in 1..Len(ret.val[added[i].vlan_set][h].vms) :
                      ret.val[added[i].vlan_set][h].vms[k] = added[i].vm

-----------------------------------------------------------------------------
(* The patch-upgrade driver: VMPatchUpgrade.py *)

\* In the runs of the driver arg holds the globals status_dict and failed_vms
\* and the locals of get_vmip (vm_ips, idx, batch, threads and the place k of
\* the for loop under way; threads lists the places of its threads in calls),
\* calls holds the upgrade_vm threads in the order they were started, pc is
\* the place of the main thread and ret the way the process ends.

MaxVms == 8

\* batch_size (line 74)
batch_size == 7

\* The address of the i-th VM of input.yml.
VmIp(i) == Dotted(Net10 \o <<i>>)

\* list(vm_data.keys()) (lines 57-67 and 75): the addresses collected, each
\* once, in the order of their first occurrence.
RECURSIVE Keys(_)
Keys(collected) ==
    IF collected = <<>> THEN <<>>
    ELSE LET rest == Keys(SubSeq(collected, 1, Len(collected) - 1))
             last == collected[Len(collected)]
         IN  IF \E i \in 1..Len(rest) : rest[i] = last THEN rest
             ELSE Append(rest, last)

\* The addresses collected from input.yml: n VMs, and the first one listed a
\* second time at the end.
Collected == 
    UNION {{[i \in 1..n |-> VmIp(i)],
            [i \in 1..n |-> VmIp(i)] \o <<VmIp(1)>>} : n \in 1..MaxVms}
        \cup {<<>>}

\* A faulty variant of BatchOf: everything from idx on.
BatchOfRest(ips, i) == SubSeq(ips, i + 1, Len(ips))

\* vm_ips[idx:idx + batch_size] (line 80)
BatchOf(ips, i) ==
    SubSeq(ips, i + 1, IF i + batch_size < Len(ips) THEN i + batch_size ELSE Len(ips))

\* The ways the call of upgrade_vm ends (lines 38-50): the script returns 0,
\* check=True raises CalledProcessError on another exit code, or another
\* exception (an OSError of subprocess.run) ends the thread.
Outcomes == {"exit0", "nonzero", "raised"}

\* status_dict after upgrade_vm ended in outcome o for vmip (lines 43-50).
StatusAfter(sd, vmip, o) ==
    IF o = "exit0" THEN Put(sd, vmip, "Success")
    ELSE IF o = "nonzero" THEN Put(sd, vmip, "Error")
    ELSE sd

\* status_dict.get(vmip, 'Unknown') (line 90)
StatusOf(sd, vmip) == IF vmip \in DOMAIN sd THEN sd[vmip] ELSE "Unknown"

\* The test of line 92.
CountsAsFailed(status) == status = "Failed" \/ status = "Error"

InitUpgrade ==
    /\ ip_counters = <<>>
    /\ vm_counters = <<>>
    /\ inventory = <<>>
    /\ row = 0
    /\ slot = 0
    /\ added = <<>>
    /\ NoTables
    /\ calls = <<>>
    /\ \E c \in Collected :
          arg = [op |-> "get_vmip", vm_ips |-> Keys(c), idx |-> 0, batch |-> <<>>,
                 threads |-> <<>>, k |-> 0, status_dict |-> <<>>,
                 failed_vms |-> <<>>]
    /\ ret = NoRet
    /\ pc = "collected"

\* Lines 71-72: no address, Cleanup ends the process with status 1.
NoVmIps ==
    /\ pc = "collected"
    /\ arg.vm_ips = <<>>
    /\ pc' = "exit"
    /\ ret' = [exc |-> "SystemExit", val |-> 1]
    /\ UNCHANGED <<ip_counters, vm_counters, vmlaunch_df, vlan_df, resources,
                   inventory, row, slot, added, arg, calls>>

\* Lines 74-77.
EnterLoop ==
    /\ pc = "collected"
    /\ arg.vm_ips # <<>>
    /\ pc' = "while"
    /\ UNCHANGED <<ip_counters, vm_counters, vmlaunch_df, vlan_df, resources,
                   inventory, row, slot, added, arg, ret, calls>>

\* Lines 78-81: the next batch.
BeginBatch ==
    /\ pc = "while"
    /\ arg.idx < Len(arg.vm_ips)
    /\ arg' = [arg EXCEPT !.threads = <<>>,
                          !.batch = BatchOf(arg.vm_ips, arg.idx),
                          !.k = 1]
    /\ pc' = "start"
    /\ UNCHANGED <<ip_counters, vm_counters, vmlaunch_df, vlan_df, resources,
                   inventory, row, slot, added, ret, calls>>

\* Lines 82-86: one thread is started, or the loop is over.
StartThread ==
    /\ pc = "start"
    /\ IF arg.k <= Len(arg.batch)
       THEN /\ calls' = Append(calls, [vmip |-> arg.batch[arg.k], at |-> "running",
                                       outcome |-> "none"])
            /\ arg' = [arg EXCEPT !.threads = Append(@, Len(calls) + 1),
                                  !.k = arg.k + 1]
            /\ pc' = pc
       ELSE /\ arg' = [arg EXCEPT !.k = 1]
            /\ pc' = "join"
            /\ calls' = calls
    /\ UNCHANGED <<ip_counters, vm_counters, vmlaunch_df, vlan_df, resources,
                   inventory, row, slot, added, ret>>

\* upgrade_vm (lines 36-50) of thread t runs to its end.
UpgradeVm(t) ==
    /\ calls[t].at = "running"
    /\ \E o \in Outcomes :
          /\ calls' = [calls EXCEPT ![t] = [@ EXCEPT !.at = "ended", !.outcome = o]]
          /\ arg' = [arg EXCEPT !.status_dict = StatusAfter(@, calls[t].vmip, o)]
    /\ UNCHANGED <<ip_counters, vm_counters, vmlaunch_df, vlan_df, resources,
                   inventory, pc, row, slot, added, ret>>

\* Lines 87-88: thread.join() returns when the thread has ended.
JoinThread ==
    /\ pc = "join"
    /\ IF arg.k <= Len(arg.threads)
       THEN /\ calls[arg.threads[arg.k]].at = "ended"
            /\ arg' = [arg EXCEPT !.k = arg.k + 1]
            /\ pc' = pc
       ELSE /\ arg' = [arg EXCEPT !.k = 1]
            /\ pc' = "read"
    /\ UNCHANGED <<ip_counters, vm_counters, vmlaunch_df, vlan_df, resources,
                   inventory, row, slot, added, ret, calls>>

\* Lines 89-94: the status of one address is read, or the batch is done.
ReadStatus ==
    /\ pc = "read"
    /\ IF arg.k <= Len(arg.batch)
       THEN /\ arg' = [arg EXCEPT
                          !.failed_vms =
                              IF CountsAsFailed(StatusOf(arg.status_dict, arg.batch[arg.k]))
                              THEN Append(@, arg.batch[arg.k]) ELSE @,
                          !.k = arg.k + 1]
            /\ pc' = pc
       ELSE /\ arg' = [arg EXCEPT !.idx = arg.idx + batch_size]
            /\ pc' = "while"
    /\ UNCHANGED <<ip_counters, vm_counters, vmlaunch_df, vlan_df, resources,
                   inventory, row, slot, added, ret, calls>>

\* Lines 95-98 and 133: Cleanup ends the process with status 1 when
\* failed_vms is not empty; otherwise the success message is printed and
\* main ends with sys.exit(0).
Finish ==
    /\ pc = "while"
    /\ arg.idx >= Len(arg.vm_ips)
    /\ pc' = "exit"
    /\ ret' = IF arg.failed_vms # <<>>
              THEN [exc |-> "SystemExit", val |-> 1]
              ELSE [exc |-> "SystemExit", val |-> 0]
    /\ UNCHANGED <<ip_counters, vm_counters, vmlaunch_df, vlan_df, resources,
                   inventory, row, slot, added, arg, calls>>

NextUpgrade ==
    \/ NoVmIps
    \/ EnterLoop
    \/ BeginBatch
    \/ StartThread
    \/ \E t \in 1..Len(calls) : UpgradeVm(t)
    \/ JoinThread
    \/ ReadStatus
    \/ Finish

SpecUpgrade == InitUpgrade /\ [][NextUpgrade]_vars

\* The threads that are running.
Running == {t \in 1..Len(calls) : calls[t].at = "running"}

\* C29: at no time more than 7 upgrade_vm threads run; a thread runs only
\* while the main thread is at its own batch, so every thread of the batches
\* before has ended; no address is handed to two threads, none is handed out
\* twice within vm_ips, and at the end every address has had its thread; the
\* statuses of a batch are read only when none of its threads runs.
C29_BatchesOfSeven ==
    /\ Cardinality(Running) <= 7
    /\ \A t \in Running :
          /\ pc \in {"start", "join"}
          /\ \E j \in 1..Len(arg.threads) : arg.threads[j] = t
          /\ \A u \in 1..Len(calls) :
                (\A j \in 1..Len(arg.threads) : arg.threads[j] # u) => u \notin Running
    /\ Len(arg.threads) <= 7
    /\ \A t, u \in 1..Len(calls) : calls[t].vmip = calls[u].vmip => t = u
    /\ \A t \in 1..Len(calls) : calls[t].vmip = arg.vm_ips[t]
    /\ (pc = "exit" /\ arg.vm_ips # <<>>) => Len(calls) = Len(arg.vm_ips)
    /\ pc = "read" => Running = {}

\* The second batch is under way: its thread runs, the seven threads of the
\* first batch have ended.
C29_Witness ==
    /\ pc = "join"
    /\ arg.idx = 7
    /\ Len(calls) = 8
    /\ Running = {8}

\* C30: the run ends with exit status 0 only if the script of every address
\* ended with exit code 0; an address whose script ended otherwise, or whose
\* thread ended without a status, is in failed_vms, and the run then ends
\* with exit status 1, after all batches.
C30_SuccessOnlyIfAllSucceeded ==
    (pc = "exit" /\ arg.vm_ips # <<>>) =>
        /\ Len(calls) = Len(arg.vm_ips)
        /\ \A t \in 1..Len(calls) :
              calls[t].outcome # "exit0" =>
                  \E i \in 1..Len(arg.failed_vms) : arg.failed_vms[i] = calls[t].vmip
        /\ ret.val = IF \A t \in 1..Len(calls) : calls[t].outcome = "exit0" THEN 0 ELSE 1

=============================================================================
